---- MODULE Spec2Model ----
(***************************************************************************)
(* Model of the resource store (Core/GameProject/CResourceStore.cpp,       *)
(* CResourceEntry.h) and of the archive engine                             *)
(* (Common/Serialization/IArchive.h) of PrimeWorldEditor.                  *)
(*                                                                         *)
(* ASSERT is modelled as fatal: a failed assertion stops the program       *)
(* (halted = "assert") with the state it had when the assertion was        *)
(* evaluated.  Undefined behaviour stops the model in halted = "ub".       *)
(***************************************************************************)
EXTENDS Integers, Sequences, FiniteSets, TLC

\* ------------------------------------------------------------------ bounds
MaxID   == 2      \* valid asset ids are 1..MaxID
MaxAddr == 2      \* number of CResourceEntry objects that can be live at once
MaxRefs == 1      \* external (TResPtr) references a client takes on one payload
MaxRecs == 2      \* records in a cache file
MaxPayload == 1   \* cells in the payload of one cache record
MaxConsume == 2   \* cells SerializeCacheData may read for one entry
MaxVal == 1       \* primitive values of a serialized field are 0..MaxVal
MaxLen == 2       \* elements of a serialized vector
MaxNest == 3      \* Load() calls in progress at a time
MaxPathNest == 2  \* LoadResource calls in progress at a time, by path and by id

\* --------------------------------------------------------------- constants
InvalidID       == 0                      \* an id for which CAssetID::IsValid() is false
ValidIDs        == 1..MaxID
IDs             == {InvalidID} \cup ValidIDs
NULL            == 0                      \* nullptr
Addr            == 1..MaxAddr             \* addresses of CResourceEntry objects
eInvalidResType == "INVALID"
Types           == {"CMDL", "TXTR"}       \* EResType values of real resource types

\* (type, directory, name) arguments given to RegisterResource: two valid
\* paths, an absolute directory and two names that are paths
RegArgs == { [type |-> "CMDL", dir |-> "",     name |-> "n"],
             [type |-> "TXTR", dir |-> "d",    name |-> "m"],
             [type |-> "CMDL", dir |-> "/abs", name |-> "n"],
             [type |-> "CMDL", dir |-> "",     name |-> "a/b"],
             [type |-> "CMDL", dir |-> "",     name |-> "a\\b"] }

\* (type, directory, name) arguments given to RegisterTransientResource
TransArgs == { [type |-> "CMDL", dir |-> "",  name |-> "n"],
               [type |-> "CMDL", dir |-> "t", name |-> "n"] }

NoDir       == [k |-> "null", n |-> ""]       \* mpDirectory == nullptr
DanglingDir == [k |-> "dangling", n |-> ""]   \* mpDirectory points to a deleted directory
DbDir(n)    == [k |-> "db", n |-> n]          \* directory below mpDatabaseRoot ("" is the root)
TrDir(n)    == [k |-> "tr", n |-> n]          \* transient root directory named n

FreeEntry == [live |-> FALSE, ID |-> InvalidID, Type |-> eInvalidResType, Dir |-> NoDir,
              Name |-> "", Transient |-> FALSE, Loaded |-> FALSE]

NoOp == [op |-> "none", id |-> InvalidID, type |-> "", dir |-> "", name |-> "", arg |-> NULL,
         ret |-> NULL, err |-> FALSE]

\* ------------------------------------------------------------------- state
VARIABLES
    heap,               \* Addr -> CResourceEntry object (FreeEntry when not allocated)
    mResourceEntries,   \* std::map<CAssetID, CResourceEntry*>
    mLoadedResources,   \* std::map<CAssetID, CResourceEntry*>
    ext,                \* Addr -> number of external TResPtr references to the payload
    deps,               \* Addr -> payloads (by entry address) the payload holds a TResPtr to
    dirs,               \* existing CVirtualDirectory objects -> their child resources
    mTransientRoots,    \* std::vector<CVirtualDirectory*>, by name
    mpDatabaseRoot,     \* mpDatabaseRoot != nullptr
    mpProj,             \* CGameProject* (NULL or a project)
    mTransientLoadDir,  \* directory used by LoadResource(id, type) for unregistered ids
    mDatabaseDirty,     \* bool mDatabaseDirty
    mCacheFileDirty,    \* bool mCacheFileDirty
    halted,             \* "none", "assert" (fatal assertion) or "ub" (undefined behaviour)
    lastOp,             \* the last store operation: name, arguments, result, error logged
    dbFile,             \* the resource database on disk: the records last saved
    cacheDisk,          \* the cache file on disk: the file last saved
    cacheFile,          \* the cache file being read by LoadCacheFile
    cachePc,            \* "idle", or "loop" while LoadCacheFile runs its record loop
    cachePos,           \* CacheFile.Tell(), as an offset into the file's body
    iRes,               \* loop counter of LoadCacheFile
    cacheFrom,          \* Addr -> offset its cache data was last read from (0: never)
    arcMode,            \* "idle", "w" (writing), "r" (reading), "done", "assert"
    mArchiveFlags,      \* u32 mArchiveFlags, as the set of EArchiveFlags
    debugBuild,         \* whether the engine was compiled with _DEBUG
    arcRoot,            \* class of the object graph passed to the archive
    arcSrc,             \* the object graph the writer was given
    arcObj,             \* the object graph the archive is running on
    arcTmp,             \* local variables of running Serialize functions
    mParmStack,         \* std::vector<SParmStackEntry> mParmStack
    arcNodes,           \* the document
    arcScope,           \* the backend's stack of open scopes
    arcAgenda,          \* the statements of the traversal still to run
    arcLast,            \* the last step of the traversal
    loading,            \* the Load() calls whose format loader is running, outermost first
    gc                  \* the DestroyUnreferencedResources call whose loop is running

storeVars == <<heap, mResourceEntries, mLoadedResources, ext, deps, dirs, mTransientRoots,
               mpDatabaseRoot, mpProj, mTransientLoadDir, mDatabaseDirty, mCacheFileDirty,
               halted, lastOp>>

persistVars == <<dbFile, cacheDisk, cacheFile, cachePc, cachePos, iRes, cacheFrom>>

arcVars == <<arcMode, mArchiveFlags, debugBuild, arcRoot, arcSrc, arcObj, arcTmp, mParmStack, arcNodes,
             arcScope, arcAgenda, arcLast>>

loadVars == <<loading, gc>>

vars == <<storeVars, persistVars, arcVars, loadVars>>

\* ------------------------------------------------------- generic helpers
MapErase(m, k) == [x \in (DOMAIN m) \ {k} |-> m[x]]
MapPut(m, k, v) == [x \in (DOMAIN m) \cup {k} |-> IF x = k THEN v ELSE m[x]]

SetMin(S) == CHOOSE x \in S : \A y \in S : x <= y

RECURSIVE SortedSeq(_)
SortedSeq(S) == IF S = {} THEN <<>> ELSE <<SetMin(S)>> \o SortedSeq(S \ {SetMin(S)})

SeqRemoveAt(s, i) == [j \in 1..(Len(s) - 1) |-> IF j < i THEN s[j] ELSE s[j + 1]]

\* The store as one record, threaded through the operators below.
St == [heap |-> heap, ent |-> mResourceEntries, loaded |-> mLoadedResources, ext |-> ext,
       deps |-> deps, dirs |-> dirs, roots |-> mTransientRoots, root |-> mpDatabaseRoot,
       proj |-> mpProj, tdir |-> mTransientLoadDir, dbDirty |-> mDatabaseDirty,
       cacheDirty |-> mCacheFileDirty,
       halted |-> halted]

Halt(S, how) == [S EXCEPT !.halted = how]

\* The store of a program that has stopped: its memory is gone.
StoppedStore(how) ==
    [heap |-> [a \in Addr |-> FreeEntry], ent |-> <<>>, loaded |-> <<>>,
     ext |-> [a \in Addr |-> 0], deps |-> [a \in Addr |-> {}], dirs |-> <<>>,
     roots |-> <<>>, root |-> FALSE, proj |-> NULL, tdir |-> "", dbDirty |-> FALSE,
     cacheDirty |-> FALSE,
     halted |-> how]

Commit(S0) ==
    LET S == IF S0.halted = "none" THEN S0 ELSE StoppedStore(S0.halted)
    IN /\ heap' = S.heap
       /\ mResourceEntries' = S.ent
       /\ mLoadedResources' = S.loaded
       /\ ext' = S.ext
       /\ deps' = S.deps
       /\ dirs' = S.dirs
       /\ mTransientRoots' = S.roots
       /\ mpDatabaseRoot' = S.root
       /\ mpProj' = S.proj
       /\ mTransientLoadDir' = S.tdir
       /\ mDatabaseDirty' = S.dbDirty
       /\ mCacheFileDirty' = S.cacheDirty
       /\ halted' = S.halted

\* ------------------------------------------------------- store operators

\* CResourceStore::FindEntry(const CAssetID&)
FindEntry(S, id) ==
    IF id = InvalidID THEN NULL
    ELSE IF id \notin DOMAIN S.ent THEN NULL
    ELSE S.ent[id]

\* CResourceStore::IsValidResourcePath
IsValidDirectoryPath(d) == d \in {"", "d"}
IsValidName(n) == n \in {"n", "m", "a/b", "a\\b"}
NameContainsSlash(n) == n = "a/b"
NameContainsBackslash(n) == n = "a\\b"
\* Mutant of IsValidResourcePath: a backslash in the name is accepted.
IsValidResourcePath_SlashOnly(d, n) ==
    /\ IsValidDirectoryPath(d)
    /\ IsValidName(n)
    /\ ~NameContainsSlash(n)

IsValidResourcePath(d, n) ==
    /\ IsValidDirectoryPath(d)
    /\ IsValidName(n)
    /\ ~NameContainsSlash(n)
    /\ ~NameContainsBackslash(n)

\* CResourceStore::GetVirtualDirectory(rkPath, Transient, AllowCreate = true):
\* the directory and the store in which that directory exists.
GetVirtualDirectory(S, path, transient) ==
    IF path = "" THEN
        [dir |-> IF S.root THEN DbDir("") ELSE NoDir, S |-> S]
    ELSE IF transient THEN
        IF \E i \in 1..Len(S.roots) : S.roots[i] = path
        THEN [dir |-> TrDir(path), S |-> S]
        ELSE [dir |-> TrDir(path),
              S |-> [S EXCEPT !.roots = Append(@, path),
                              !.dirs = MapPut(@, TrDir(path), {})]]
    ELSE IF S.root THEN
        [dir |-> DbDir(path),
         S |-> IF DbDir(path) \in DOMAIN S.dirs THEN S
               ELSE [S EXCEPT !.dirs = MapPut(@, DbDir(path), {})]]
    ELSE [dir |-> NoDir, S |-> S]

\* CResourceEntry::CResourceEntry: the entry is placed at address a and linked
\* into its directory.
NewEntry(S, a, id, dir, name, type, transient) ==
    LET g == GetVirtualDirectory(S, dir, transient)
        e == [live |-> TRUE, ID |-> id, Type |-> type, Dir |-> g.dir, Name |-> name,
              Transient |-> transient, Loaded |-> FALSE]
        S1 == [g.S EXCEPT !.heap[a] = e]
    IN IF g.dir = NoDir THEN S1
       ELSE [S1 EXCEPT !.dirs[g.dir] = @ \cup {a}]

\* CResource::IsReferenced of the payload of entry a
IsReferenced(S, a) == S.ext[a] > 0 \/ \E b \in Addr : a \in S.deps[b]

\* CResourceEntry::Unload: refuses while the payload is referenced, else
\* releases the payload (and with it the references the payload held).
Unload(S, a) ==
    IF IsReferenced(S, a) THEN [ok |-> FALSE, S |-> S]
    ELSE [ok |-> TRUE, S |-> [S EXCEPT !.heap[a].Loaded = FALSE, !.deps[a] = {}]]

\* CResourceStore::TrackLoadedResource
TrackLoadedResource(S, a) ==
    IF ~S.heap[a].Loaded THEN Halt(S, "assert")
    ELSE IF S.heap[a].ID \in DOMAIN S.loaded THEN Halt(S, "assert")
    ELSE [S EXCEPT !.loaded = MapPut(@, S.heap[a].ID, a)]

\* Mutant of DeleteResourceEntry: the result of Unload() is ignored and the
\* payload is dropped even though it is referenced.
DeleteResourceEntry_IgnoreRefusal(S, a) ==
    LET e  == S.heap[a]
        ID == e.ID
        S1 == IF e.Loaded
              THEN [S EXCEPT !.heap[a].Loaded = FALSE, !.deps[a] = {},
                             !.loaded = MapErase(@, ID)]
              ELSE S
        S3 == IF e.Dir \in DOMAIN S1.dirs THEN [S1 EXCEPT !.dirs[e.Dir] = @ \ {a}] ELSE S1
    IN [ret |-> TRUE,
        S |-> [S3 EXCEPT !.ent = MapErase(@, ID), !.heap[a] = FreeEntry, !.ext[a] = 0]]

\* CResourceStore::DeleteResourceEntry
DeleteResourceEntry(S, a) ==
    LET e  == S.heap[a]
        ID == e.ID
        u  == Unload(S, a)
    IN IF e.Loaded /\ ~u.ok THEN [ret |-> FALSE, S |-> S]
       ELSE
        LET S1 == IF e.Loaded THEN u.S ELSE S
        IN IF e.Loaded /\ ID \notin DOMAIN S1.loaded
           THEN [ret |-> FALSE, S |-> Halt(S1, "assert")]
           ELSE
            LET S2 == IF e.Loaded THEN [S1 EXCEPT !.loaded = MapErase(@, ID)] ELSE S1
            IN IF e.Dir = DanglingDir
               THEN [ret |-> FALSE, S |-> Halt(S2, "ub")]
               ELSE
                LET S3 == IF e.Dir # NoDir THEN [S2 EXCEPT !.dirs[e.Dir] = @ \ {a}] ELSE S2
                IN IF ID \notin DOMAIN S3.ent
                   THEN [ret |-> FALSE, S |-> Halt(S3, "assert")]
                   ELSE [ret |-> TRUE,
                         S |-> [S3 EXCEPT !.ent = MapErase(@, ID),
                                          !.heap[a] = FreeEntry,
                                          !.ext[a] = 0]]

\* Mutant of GCPass: an unloaded transient entry is not deleted.
RECURSIVE GCPass_KeepTransient(_, _, _)
GCPass_KeepTransient(S, keys, n) ==
    IF keys = <<>> \/ S.halted # "none" THEN [S |-> S, n |-> n]
    ELSE
        LET k == Head(keys)
            a == S.loaded[k]
        IN IF ~IsReferenced(S, a) /\ Unload(S, a).ok
           THEN GCPass_KeepTransient([Unload(S, a).S EXCEPT !.loaded = MapErase(@, k)],
                                     Tail(keys), n + 1)
           ELSE GCPass_KeepTransient(S, Tail(keys), n)

\* Mutant of GCPass: NumDeleted also counts the entries the scan leaves
\* loaded.
RECURSIVE GCPass_CountsKept(_, _, _)
GCPass_CountsKept(S, keys, n) ==
    IF keys = <<>> \/ S.halted # "none" THEN [S |-> S, n |-> n]
    ELSE
        LET k == Head(keys)
            a == S.loaded[k]
        IN IF ~IsReferenced(S, a) /\ Unload(S, a).ok
           THEN LET S1 == [Unload(S, a).S EXCEPT !.loaded = MapErase(@, k)]
                    S2 == IF S.heap[a].Transient THEN DeleteResourceEntry(S1, a).S ELSE S1
                IN GCPass_CountsKept(S2, Tail(keys), n + 1)
           ELSE GCPass_CountsKept(S, Tail(keys), n + 1)

\* One scan of mLoadedResources (the body of the do-while loop of
\* DestroyUnreferencedResources), in key order; n counts NumDeleted.
RECURSIVE GCPass(_, _, _)
GCPass(S, keys, n) ==
    IF keys = <<>> \/ S.halted # "none" THEN [S |-> S, n |-> n]
    ELSE
        LET k == Head(keys)
            a == S.loaded[k]
        IN IF ~IsReferenced(S, a) /\ Unload(S, a).ok
           THEN LET S1 == [Unload(S, a).S EXCEPT !.loaded = MapErase(@, k)]
                    S2 == IF S.heap[a].Transient THEN DeleteResourceEntry(S1, a).S ELSE S1
                IN GCPass(S2, Tail(keys), n + 1)
           ELSE GCPass(S, Tail(keys), n)

\* Mutant of GCLoop: a single scan, not repeated.
GCLoop_OnePass(S, passes) ==
    [S |-> GCPass(S, SortedSeq(DOMAIN S.loaded), 0).S, passes |-> passes + 1]

\* The do-while loop: repeat the scan until a scan deletes nothing.
\* Returns the store and the number of scans made.
RECURSIVE GCLoop(_, _)
GCLoop(S, passes) ==
    LET r == GCPass(S, SortedSeq(DOMAIN S.loaded), 0)
    IN IF r.S.halted # "none" \/ r.n = 0 THEN [S |-> r.S, passes |-> passes + 1]
       ELSE GCLoop(r.S, passes + 1)

\* The sweep of mTransientRoots: DirIt is the index i.  erase() of the last
\* element returns end(), and the loop's DirIt++ then steps past end().
RECURSIVE SweepTransientRoots(_, _)
SweepTransientRoots(S, i) ==
    IF i > Len(S.roots) THEN S
    ELSE IF S.dirs[TrDir(S.roots[i])] = {}
         THEN LET S1 == [S EXCEPT !.roots = SeqRemoveAt(@, i),
                                  !.dirs = MapErase(@, TrDir(S.roots[i]))]
              IN IF i > Len(S1.roots) THEN Halt(S1, "ub")
                 ELSE SweepTransientRoots(S1, i + 1)
         ELSE SweepTransientRoots(S, i + 1)

\* CResourceStore::DestroyUnreferencedResources
DestroyUnreferencedResources(S) ==
    LET S1 == GCLoop(S, 0).S
    IN IF S1.halted # "none" THEN S1 ELSE SweepTransientRoots(S1, 1)

\* Mutant of CloseProject: the entries are deleted without the check of the
\* loaded-map.
CloseProject_NoAssertion(S) ==
    LET S1 == DestroyUnreferencedResources(S)
    IN IF S1.halted # "none" THEN S1
       ELSE
        LET gone == {id \in DOMAIN S1.ent : ~S1.heap[S1.ent[id]].Transient}
            dead == {S1.ent[id] : id \in gone}
        IN [S1 EXCEPT
              !.ent  = [id \in (DOMAIN S1.ent) \ gone |-> S1.ent[id]],
              !.heap = [a \in Addr |->
                          IF a \in dead THEN FreeEntry
                          ELSE IF S1.heap[a].live /\ S1.heap[a].Dir.k = "db"
                               THEN [S1.heap[a] EXCEPT !.Dir = DanglingDir]
                               ELSE S1.heap[a]],
              !.dirs = [d \in {x \in DOMAIN S1.dirs : x.k # "db"} |-> S1.dirs[d]],
              !.root = FALSE,
              !.proj = NULL]

\* CResourceStore::CloseProject
CloseProject(S) ==
    LET S1 == DestroyUnreferencedResources(S)
    IN IF S1.halted # "none" THEN S1
       ELSE IF DOMAIN S1.loaded # {} THEN Halt(S1, "assert")
       ELSE
        LET gone == {id \in DOMAIN S1.ent : ~S1.heap[S1.ent[id]].Transient}
            dead == {S1.ent[id] : id \in gone}
        IN [S1 EXCEPT
              !.ent  = [id \in (DOMAIN S1.ent) \ gone |-> S1.ent[id]],
              !.heap = [a \in Addr |->
                          IF a \in dead THEN FreeEntry
                          ELSE IF S1.heap[a].live /\ S1.heap[a].Dir.k = "db"
                               THEN [S1.heap[a] EXCEPT !.Dir = DanglingDir]
                               ELSE S1.heap[a]],
              !.dirs = [d \in {x \in DOMAIN S1.dirs : x.k # "db"} |-> S1.dirs[d]],
              !.root = FALSE,
              !.proj = NULL]

\* CResourceEntry::AddToProject: a transient entry becomes a permanent one at
\* the given path (Move); a non-transient entry is left alone.
AddToProject(S, a, dir, name) ==
    LET e == S.heap[a]
    IN IF ~e.Transient THEN S
       ELSE IF e.Dir = DanglingDir THEN Halt(S, "ub")
       ELSE
        LET S1 == IF e.Dir = NoDir THEN S ELSE [S EXCEPT !.dirs[e.Dir] = @ \ {a}]
            g  == GetVirtualDirectory(S1, dir, FALSE)
            S2 == [g.S EXCEPT !.heap[a].Transient = FALSE,
                              !.heap[a].Dir = g.dir,
                              !.heap[a].Name = name,
                              !.dbDirty = TRUE]
        IN IF g.dir = NoDir THEN S2 ELSE [S2 EXCEPT !.dirs[g.dir] = @ \cup {a}]

\* Mutant of RegisterResource: a transient entry is promoted whatever its
\* type.
RegisterResource_NoTypeCheck(S, a, id, type, dir, name) ==
    LET pEntry == FindEntry(S, id)
    IN IF pEntry # NULL THEN
          IF S.heap[pEntry].Transient THEN
             [ret |-> pEntry, err |-> FALSE,
              S |-> AddToProject([S EXCEPT !.heap[pEntry].Type = type], pEntry, dir, name)]
          ELSE [ret |-> pEntry, err |-> TRUE, S |-> S]
       ELSE IF IsValidResourcePath(dir, name) THEN
          [ret |-> a, err |-> FALSE,
           S |-> LET S1 == NewEntry(S, a, id, dir, name, type, FALSE)
                 IN [S1 EXCEPT !.ent = MapPut(@, id, a)]]
       ELSE [ret |-> NULL, err |-> TRUE, S |-> S]

\* CResourceStore::RegisterResource
RegisterResource(S, a, id, type, dir, name) ==
    LET pEntry == FindEntry(S, id)
    IN IF pEntry # NULL THEN
          IF S.heap[pEntry].Transient THEN
             IF S.heap[pEntry].Type # type
             THEN [ret |-> NULL, err |-> FALSE, S |-> Halt(S, "assert")]
             ELSE [ret |-> pEntry, err |-> FALSE, S |-> AddToProject(S, pEntry, dir, name)]
          ELSE [ret |-> pEntry, err |-> TRUE, S |-> S]
       ELSE IF IsValidResourcePath(dir, name) THEN
          [ret |-> a, err |-> FALSE,
           S |-> LET S1 == NewEntry(S, a, id, dir, name, type, FALSE)
                 IN [S1 EXCEPT !.ent = MapPut(@, id, a)]]
       ELSE [ret |-> NULL, err |-> TRUE, S |-> S]

\* CResourceStore::RegisterTransientResource(Type, rkDir, rkFileName);
\* rnd is the value of CAssetID::RandomID()
RegisterTransientResourceRandom(S, a, rnd, type, dir, name) ==
    LET S1 == NewEntry(S, a, rnd, dir, name, type, TRUE)
    IN [ret |-> a, S |-> [S1 EXCEPT !.ent = MapPut(@, rnd, a)]]

\* CResourceStore::RegisterTransientResource(Type, rkID, rkDir, rkFileName)
RegisterTransientResource(S, a, type, id, dir, name) ==
    LET pEntry == FindEntry(S, id)
    IN IF pEntry = NULL
       THEN LET S1 == NewEntry(S, a, id, dir, name, type, TRUE)
            IN [ret |-> a, S |-> [S1 EXCEPT !.ent = MapPut(@, id, a)]]
       ELSE [ret |-> pEntry, S |-> S]

\* CResourceEntry::Load / LoadCooked: ok says whether the byte source was found
\* and the format loader accepted it; newdeps are the payloads the new payload
\* takes a reference to.
EntryLoad(S, a, ok, newdeps) ==
    IF S.heap[a].Loaded THEN [ret |-> a, S |-> S]
    ELSE IF ~ok THEN [ret |-> NULL, S |-> S]
    ELSE LET S1 == [S EXCEPT !.heap[a].Loaded = TRUE, !.deps[a] = newdeps]
             S2 == TrackLoadedResource(S1, a)
         IN [ret |-> IF S2.halted = "none" THEN a ELSE NULL, S |-> S2]

\* CResTypeInfo::TypeForCookedExtension(mGame, rkType)->Type()
TypeForCookedExtension(ext4) == IF ext4 \in Types THEN ext4 ELSE eInvalidResType

\* CResourceStore::LoadResource(const CAssetID&, const CFourCC&)
LoadResource(S, a, id, rkType, rnd, ok, newdeps) ==
    IF id = InvalidID THEN [ret |-> NULL, err |-> FALSE, made |-> FALSE, S |-> S]
    ELSE IF id \in DOMAIN S.loaded
    THEN [ret |-> S.loaded[id], err |-> FALSE, made |-> FALSE, S |-> S]
    ELSE IF FindEntry(S, id) # NULL THEN
        LET l == EntryLoad(S, FindEntry(S, id), ok, newdeps)
        IN [ret |-> l.ret, err |-> FALSE, made |-> FALSE, S |-> l.S]
    ELSE IF TypeForCookedExtension(rkType) # eInvalidResType THEN
        LET r == RegisterTransientResourceRandom(S, a, rnd, TypeForCookedExtension(rkType),
                                                 S.tdir, ToString(id))
            l == EntryLoad(r.S, r.ret, ok, newdeps)
        IN IF l.ret = NULL /\ l.S.halted = "none"
           THEN [ret |-> NULL, err |-> FALSE, made |-> TRUE,
                 S |-> DeleteResourceEntry(l.S, r.ret).S]
           ELSE [ret |-> l.ret, err |-> FALSE, made |-> TRUE, S |-> l.S]
    ELSE [ret |-> NULL, err |-> TRUE, made |-> FALSE, S |-> S]

\* LoadResource(id, type) up to the format loader: ret is what it returns at
\* once; run is the entry whose Load() or LoadCooked() starts the loader, and
\* synth says that the entry was made for this call
LoadResourceCall(S, a, id, rkType, rnd) ==
    LET none == [ret |-> NULL, err |-> FALSE, run |-> NULL, synth |-> FALSE, S |-> S]
    IN IF id = InvalidID THEN none
       ELSE IF id \in DOMAIN S.loaded THEN [none EXCEPT !.ret = S.loaded[id]]
       ELSE IF FindEntry(S, id) # NULL
       THEN IF S.heap[FindEntry(S, id)].Loaded
            THEN [none EXCEPT !.ret = FindEntry(S, id)]
            ELSE [none EXCEPT !.run = FindEntry(S, id)]
       ELSE IF TypeForCookedExtension(rkType) # eInvalidResType
       THEN LET r == RegisterTransientResourceRandom(S, a, rnd,
                                                     TypeForCookedExtension(rkType),
                                                     S.tdir, ToString(id))
            IN [ret |-> NULL, err |-> FALSE, run |-> r.ret, synth |-> TRUE, S |-> r.S]
       ELSE [none EXCEPT !.err = TRUE]

\* The rest of Load() / LoadCooked() and of LoadResource once the format
\* loader has returned: the payload is registered with the entry and the entry
\* with the loaded-map; an entry made for the call is deleted when the load
\* failed
LoadResourceReturn(S, a, synth, ok) ==
    IF ok
    THEN LET S1 == [S EXCEPT !.heap[a].Loaded = TRUE, !.deps[a] = {}]
             S2 == TrackLoadedResource(S1, a)
         IN [ret |-> IF S2.halted = "none" THEN a ELSE NULL, S |-> S2]
    ELSE [ret |-> NULL, S |-> IF synth THEN DeleteResourceEntry(S, a).S ELSE S]

\* Mutant of LoadResourcePath: the entry is kept when the cooked load fails.
LoadResourcePath_NoRollback(S, a, rkPath, pFound, extOk, fileOk, ok, newdeps) ==
    IF ~rkPath.abs THEN
        IF pFound = NULL THEN [ret |-> NULL, err |-> FALSE, made |-> FALSE, S |-> S]
        ELSE IF ~extOk THEN [ret |-> NULL, err |-> FALSE, made |-> FALSE, S |-> Halt(S, "assert")]
        ELSE LET l == EntryLoad(S, pFound, ok, newdeps)
             IN [ret |-> l.ret, err |-> FALSE, made |-> FALSE, S |-> l.S]
    ELSE IF rkPath.id \in DOMAIN S.loaded
    THEN [ret |-> S.loaded[rkPath.id], err |-> FALSE, made |-> FALSE, S |-> S]
    ELSE IF TypeForCookedExtension(rkPath.ext) = eInvalidResType
    THEN [ret |-> NULL, err |-> TRUE, made |-> FALSE, S |-> S]
    ELSE IF ~fileOk THEN [ret |-> NULL, err |-> TRUE, made |-> FALSE, S |-> S]
    ELSE
        LET r == RegisterTransientResource([S EXCEPT !.tdir = rkPath.dir], a,
                                           TypeForCookedExtension(rkPath.ext), rkPath.id,
                                           rkPath.dir, rkPath.name)
            l == EntryLoad(r.S, r.ret, ok, newdeps)
        IN [ret |-> l.ret, err |-> FALSE, made |-> r.ret = a,
            S |-> IF l.S.halted = "none" THEN [l.S EXCEPT !.tdir = S.tdir] ELSE l.S]

\* CResourceStore::LoadResource(const TWideString&).  rkPath is the path
\* taken apart: whether it is absolute, its directory, its file name, the id
\* the name gives (hex value or hash) and its extension.  pFound is what
\* FindEntry(rkPath) returns, extOk the outcome of the extension comparison,
\* fileOk whether the file could be opened, ok whether the cooked load
\* succeeded.
LoadResourcePath(S, a, rkPath, pFound, extOk, fileOk, ok, newdeps) ==
    IF ~rkPath.abs THEN
        IF pFound = NULL THEN [ret |-> NULL, err |-> FALSE, made |-> FALSE, S |-> S]
        ELSE IF ~extOk THEN [ret |-> NULL, err |-> FALSE, made |-> FALSE, S |-> Halt(S, "assert")]
        ELSE LET l == EntryLoad(S, pFound, ok, newdeps)
             IN [ret |-> l.ret, err |-> FALSE, made |-> FALSE, S |-> l.S]
    ELSE IF rkPath.id \in DOMAIN S.loaded
    THEN [ret |-> S.loaded[rkPath.id], err |-> FALSE, made |-> FALSE, S |-> S]
    ELSE IF TypeForCookedExtension(rkPath.ext) = eInvalidResType
    THEN [ret |-> NULL, err |-> TRUE, made |-> FALSE, S |-> S]
    ELSE IF ~fileOk THEN [ret |-> NULL, err |-> TRUE, made |-> FALSE, S |-> S]
    ELSE
        LET r == RegisterTransientResource([S EXCEPT !.tdir = rkPath.dir], a,
                                           TypeForCookedExtension(rkPath.ext), rkPath.id,
                                           rkPath.dir, rkPath.name)
            l == EntryLoad(r.S, r.ret, ok, newdeps)
            d == IF l.ret = NULL /\ l.S.halted = "none"
                 THEN DeleteResourceEntry(l.S, r.ret).S
                 ELSE l.S
        IN [ret |-> l.ret, err |-> FALSE, made |-> r.ret = a,
            S |-> IF d.halted = "none" THEN [d EXCEPT !.tdir = S.tdir] ELSE d]

\* LoadResource(path) up to the format loader: ret is what it returns at
\* once; run is the entry whose Load() or LoadCooked() starts the loader, and
\* del says that a failed load deletes the entry.  On an absolute path whose
\* file opens, mTransientLoadDir has become the directory of the path.
LoadResourcePathCall(S, a, rkPath, pFound, extOk, fileOk) ==
    LET none == [ret |-> NULL, err |-> FALSE, run |-> NULL, del |-> FALSE, S |-> S]
    IN IF ~rkPath.abs THEN
           IF pFound = NULL THEN none
           ELSE IF ~extOk THEN [none EXCEPT !.S = Halt(S, "assert")]
           ELSE IF S.heap[pFound].Loaded THEN [none EXCEPT !.ret = pFound]
           ELSE [none EXCEPT !.run = pFound]
       ELSE IF rkPath.id \in DOMAIN S.loaded THEN [none EXCEPT !.ret = S.loaded[rkPath.id]]
       ELSE IF TypeForCookedExtension(rkPath.ext) = eInvalidResType
       THEN [none EXCEPT !.err = TRUE]
       ELSE IF ~fileOk THEN [none EXCEPT !.err = TRUE]
       ELSE
           LET r == RegisterTransientResource([S EXCEPT !.tdir = rkPath.dir], a,
                                              TypeForCookedExtension(rkPath.ext), rkPath.id,
                                              rkPath.dir, rkPath.name)
           IN IF r.S.heap[r.ret].Loaded
              THEN [none EXCEPT !.ret = r.ret, !.S = [r.S EXCEPT !.tdir = S.tdir]]
              ELSE [none EXCEPT !.run = r.ret, !.del = TRUE, !.S = r.S]

\* Mutant of LoadResourcePathReturn: mTransientLoadDir is left as the load
\* set it.
LoadResourcePathReturn_KeepsDir(S, a, del, abs, OldTransientDir, ok) ==
    LoadResourceReturn(S, a, del, ok)

\* The rest of LoadResource(path) once the format loader has returned: the
\* rest of Load() / LoadCooked(), the deletion of the entry of a failed load
\* of an absolute path, and mTransientLoadDir = OldTransientDir
LoadResourcePathReturn(S, a, del, abs, OldTransientDir, ok) ==
    LET l == LoadResourceReturn(S, a, del, ok)
    IN IF abs /\ l.S.halted = "none"
       THEN [l EXCEPT !.S = [l.S EXCEPT !.tdir = OldTransientDir]]
       ELSE l

\* ------------------------------------------------- persistence operators

\* Mutant of DatabaseResources: transient entries are written too.
RECURSIVE DatabaseResources_All(_, _)
DatabaseResources_All(S, keys) ==
    IF keys = <<>> THEN <<>>
    ELSE LET e == S.heap[S.ent[Head(keys)]]
         IN <<[ID |-> e.ID, Type |-> e.Type, Directory |-> e.Dir.n, Name |-> e.Name]>>
            \o DatabaseResources_All(S, Tail(keys))

\* The record list SerializeResourceDatabase builds in a writer: one
\* SDatabaseResource per non-transient entry, in the order of the entries-map.
RECURSIVE DatabaseResources(_, _)
DatabaseResources(S, keys) ==
    IF keys = <<>> THEN <<>>
    ELSE LET e == S.heap[S.ent[Head(keys)]]
             rest == DatabaseResources(S, Tail(keys))
         IN IF ~e.Transient
            THEN <<[ID |-> e.ID, Type |-> e.Type, Directory |-> e.Dir.n, Name |-> e.Name]>>
                 \o rest
            ELSE rest

\* It->Directory()->FullPath() dereferences the directory of every
\* non-transient entry
SaveDereferencesBadDirectory(S) ==
    \E id \in DOMAIN S.ent :
        /\ ~S.heap[S.ent[id]].Transient
        /\ S.heap[S.ent[id]].Dir \in {NoDir, DanglingDir}

\* CResourceStore::SaveResourceDatabase; saved says whether Writer.Save()
\* succeeded.  Returns the store and the file contents.
SaveResourceDatabase(S, file, saved) ==
    IF SaveDereferencesBadDirectory(S)
    THEN [ret |-> FALSE, file |-> file, S |-> Halt(S, "ub")]
    ELSE IF saved
    THEN [ret |-> TRUE, file |-> DatabaseResources(S, SortedSeq(DOMAIN S.ent)),
          S |-> [S EXCEPT !.dbDirty = FALSE]]
    ELSE [ret |-> FALSE, file |-> file, S |-> S]

\* A store as its constructor leaves it
FreshStore ==
    [heap |-> [a \in Addr |-> FreeEntry], ent |-> <<>>, loaded |-> <<>>,
     ext |-> [a \in Addr |-> 0], deps |-> [a \in Addr |-> {}],
     dirs |-> (DbDir("") :> {}), roots |-> <<>>, root |-> TRUE, proj |-> 1, tdir |-> "",
     dbDirty |-> FALSE, cacheDirty |-> FALSE, halted |-> "none"]

\* The address operator new returns in store S (NULL when memory is used up)
NewAddrIn(S) ==
    IF \A a \in Addr : S.heap[a].live THEN NULL
    ELSE SetMin({a \in Addr : ~S.heap[a].live})

\* The loop of SerializeResourceDatabase in a reader: RegisterResource for
\* every record read
RECURSIVE RegisterRecords(_, _)
RegisterRecords(S, recs) ==
    IF recs = <<>> \/ S.halted # "none" \/ NewAddrIn(S) = NULL THEN S
    ELSE LET rRes == Head(recs)
         IN RegisterRecords(
                RegisterResource(S, NewAddrIn(S), rRes.ID, rRes.Type,
                                 rRes.Directory, rRes.Name).S,
                Tail(recs))

\* CResourceStore::LoadResourceDatabase up to its call of LoadCacheFile;
\* valid says whether the reader could open the file
LoadResourceDatabase(S, file, valid) ==
    LET S1 == IF S.root THEN S
              ELSE [S EXCEPT !.root = TRUE, !.dirs = MapPut(@, DbDir(""), {})]
    IN IF ~valid THEN [ret |-> FALSE, err |-> TRUE, S |-> S1]
       ELSE [ret |-> TRUE, err |-> FALSE, S |-> RegisterRecords(S1, file)]

\* A cache file: whether it can be opened, its magic, and its records
\* {id, u32 length, payload}; body is the byte stream after the header.
NoFile == [valid |-> FALSE, magic |-> "", recs |-> <<>>]

RECURSIVE CacheBody(_)
CacheBody(recs) ==
    IF recs = <<>> THEN <<>>
    ELSE <<Head(recs).id, Len(Head(recs).payload)>> \o Head(recs).payload
         \o CacheBody(Tail(recs))

\* CFileInStream::ReadLong at offset pos of the body (0 past the end)
ReadLong(body, pos) == IF pos \in 1..Len(body) THEN body[pos] ELSE 0

\* CResourceEntry::SerializeCacheData in a writer: the cache data of the
\* entry at a (none for a texture)
SerializeCacheData(S, a) == IF S.heap[a].Type = "TXTR" THEN << >> ELSE << 1 >>

\* The records SaveCacheFile writes: one per non-transient entry, in the
\* order of the entries-map
RECURSIVE SavedCacheRecords(_, _)
SavedCacheRecords(S, keys) ==
    IF keys = <<>> THEN <<>>
    ELSE LET a == S.ent[Head(keys)]
             rest == SavedCacheRecords(S, Tail(keys))
         IN IF ~S.heap[a].Transient
            THEN <<[id |-> S.heap[a].ID, payload |-> SerializeCacheData(S, a)]>> \o rest
            ELSE rest

\* CFourCC("CACH") as the long it is written as
CACH == 1128350536

\* An output stream: the cells written so far and the position of the next
\* write (Tell).  An id and a long take one cell each, as in CacheBody.
NewStream == [data |-> << >>, pos |-> 1]
Tell(s) == s.pos
Seek(s, p) == [s EXCEPT !.pos = p]
WriteLong(s, v) ==
    [data |-> IF s.pos <= Len(s.data) THEN [s.data EXCEPT ![s.pos] = v]
              ELSE Append(s.data, v),
     pos  |-> s.pos + 1]
RECURSIVE WriteCells(_, _)
WriteCells(s, cells) ==
    IF cells = << >> THEN s ELSE WriteCells(WriteLong(s, Head(cells)), Tail(cells))

\* Mutant of WriteEntryCache: the length is counted from the length field.
WriteEntryCache_CountsLengthField(S, a, s) ==
    LET s1 == WriteLong(s, S.heap[a].ID)
        SizeOffset == Tell(s1)
        s2 == WriteLong(s1, 0)
        s3 == WriteCells(s2, SerializeCacheData(S, a))
        EntryCacheEnd == Tell(s3)
        s4 == WriteLong(Seek(s3, SizeOffset), EntryCacheEnd - SizeOffset)
    IN Seek(s4, EntryCacheEnd)

\* The body of the loop of SaveCacheFile for the non-transient entry at a:
\* the id, a placeholder for the size, the cache data, then the size written
\* over the placeholder and the cursor back at the end
WriteEntryCache(S, a, s) ==
    LET s1 == WriteLong(s, S.heap[a].ID)
        SizeOffset == Tell(s1)
        s2 == WriteLong(s1, 0)
        s3 == WriteCells(s2, SerializeCacheData(S, a))
        EntryCacheEnd == Tell(s3)
        s4 == WriteLong(Seek(s3, SizeOffset), EntryCacheEnd - SizeOffset - 1)
    IN Seek(s4, EntryCacheEnd)

\* The loop of SaveCacheFile over the entries-map: the stream and ResCount
RECURSIVE WriteEntryCaches(_, _, _, _)
WriteEntryCaches(S, keys, s, ResCount) ==
    IF keys = <<>> THEN [s |-> s, ResCount |-> ResCount]
    ELSE LET a == S.ent[Head(keys)]
         IN IF ~S.heap[a].Transient
            THEN WriteEntryCaches(S, Tail(keys), WriteEntryCache(S, a, s), ResCount + 1)
            ELSE WriteEntryCaches(S, Tail(keys), s, ResCount)

\* The cells SaveCacheFile writes: the magic, the version, the count (a
\* placeholder filled in after the loop) and the records
WriteCacheFile(S) ==
    LET s1 == WriteLong(WriteLong(NewStream, CACH), 0)
        ResCountOffset == Tell(s1)
        s2 == WriteLong(s1, 0)
        r == WriteEntryCaches(S, SortedSeq(DOMAIN S.ent), s2, 0)
        s3 == WriteLong(Seek(r.s, ResCountOffset), r.ResCount)
    IN [data |-> s3.data, ResCountOffset |-> ResCountOffset]

\* Mutant of SaveCacheFile: the flag of the database is cleared.
SaveCacheFile_ClearsDatabaseFlag(S, file, valid) ==
    IF ~valid THEN [ret |-> FALSE, err |-> TRUE, file |-> file, S |-> S]
    ELSE [ret |-> TRUE, err |-> FALSE,
          file |-> [valid |-> TRUE, magic |-> "CACH",
                    recs |-> SavedCacheRecords(S, SortedSeq(DOMAIN S.ent)),
                    body |-> WriteCacheFile(S).data],
          S |-> [S EXCEPT !.dbDirty = FALSE]]

\* CResourceStore::SaveCacheFile; valid says whether the file could be opened
\* for writing.  Returns the store and the file on disk.
SaveCacheFile(S, file, valid) ==
    IF ~valid THEN [ret |-> FALSE, err |-> TRUE, file |-> file, S |-> S]
    ELSE [ret |-> TRUE, err |-> FALSE,
          file |-> [valid |-> TRUE, magic |-> "CACH",
                    recs |-> SavedCacheRecords(S, SortedSeq(DOMAIN S.ent)),
                    body |-> WriteCacheFile(S).data],
          S |-> [S EXCEPT !.cacheDirty = FALSE]]

\* CResourceStore::ConditionalSaveStore.  db and cache tell what each save
\* did: 0 not called, 1 succeeded, 2 failed.
ConditionalSaveStore(S, dbfile, cachefile, saved, valid) ==
    LET d == IF S.dbDirty THEN SaveResourceDatabase(S, dbfile, saved)
             ELSE [ret |-> FALSE, file |-> dbfile, S |-> S]
        c == IF d.S.halted = "none" /\ d.S.cacheDirty
             THEN SaveCacheFile(d.S, cachefile, valid)
             ELSE [ret |-> FALSE, err |-> FALSE, file |-> cachefile, S |-> d.S]
    IN [S |-> c.S, dbfile |-> d.file, cachefile |-> c.file,
        db |-> IF ~S.dbDirty THEN 0 ELSE IF d.ret THEN 1 ELSE 2,
        cache |-> IF ~(d.S.halted = "none" /\ d.S.cacheDirty) THEN 0
                  ELSE IF c.ret THEN 1 ELSE 2]

\* Mutant of LoadCacheRecord: no final Seek; the cursor stays where the
\* entry's reader left it.
LoadCacheRecord_NoSeek(S, body, pos, n) ==
    LET pEntry == FindEntry(S, ReadLong(body, pos))
        read == pEntry # NULL /\ ~S.heap[pEntry].Transient
    IN [entry |-> IF read THEN pEntry ELSE NULL,
        from  |-> pos + 2,
        pos   |-> pos + 2 + (IF read THEN n ELSE 0)]

\* One iteration of the record loop of LoadCacheFile, with the cursor at pos:
\* n is the number of cells SerializeCacheData reads.  Returns the entry whose
\* cache data was read (NULL if none), the offset it was read from, and the
\* cursor after the final Seek.
LoadCacheRecord(S, body, pos, n) ==
    LET ID == ReadLong(body, pos)
        EntryCacheSize == ReadLong(body, pos + 1)
        EntryCacheEnd == (pos + 2) + EntryCacheSize   \* offsets stay far below 2^32
        pEntry == FindEntry(S, ID)
        read == pEntry # NULL /\ ~S.heap[pEntry].Transient
    IN [entry |-> IF read THEN pEntry ELSE NULL,
        from  |-> pos + 2,
        pos   |-> EntryCacheEnd]

\* ======================================================================
\* The archive engine (Common/Serialization/IArchive.h)

\* ESerialHint and EArchiveFlags
SH_Optional   == "SH_Optional"
SH_NeverSave  == "SH_NeverSave"
SH_AlwaysSave == "SH_AlwaysSave"
SH_Attribute  == "SH_Attribute"
SH_IgnoreName == "SH_IgnoreName"
AF_Reader     == "AF_Reader"
AF_Writer     == "AF_Writer"
AF_NoSkipping == "AF_NoSkipping"

NoDefault == -1      \* pDefaultValue == nullptr
Junk      == -2      \* the value of a primitive that was never assigned
NoValue   == -3      \* a document node without text
PrimVals  == 0..MaxVal
NullPtr   == [Type |-> 0]    \* a null pointer; a live object has Type() > 0

PrimTypes == {"u32"}
IsContainer(T) == T \in {"vector<SItem>", "map<u32,u32>"}
IsPointer(T) == T = "IBase*"

\* SUPPORTS_DEFAULT_VALUES: the client classes below have no operator==
SupportsDefaultValues(T) == T \in PrimTypes

\* SerialParameter(pkName, rValue, HintFlags, rkDefaultValue): the descriptor
\* without the reference to the value, which the engine receives beside it
SerialParameter(name, T, hints, def) ==
    [pkName |-> name, type |-> T, HintFlags |-> hints,
     pDefaultValue |-> IF SupportsDefaultValues(T) THEN def ELSE NoDefault]

\* Client classes: the chain of << of each class's Serialize(IArchive&)
Fields(T) ==
    CASE T = "SPrims" -> << SerialParameter("p", "u32", {}, 0),
                            SerialParameter("o", "u32", {SH_Optional}, 0),
                            SerialParameter("a", "u32", {SH_Optional, SH_AlwaysSave}, 0),
                            SerialParameter("s", "u32", {SH_NeverSave}, 0) >>
      [] T = "SItem"  -> << SerialParameter("x", "u32", {SH_Optional}, 1) >>
      [] T = "SOuter" -> << SerialParameter("in", "SItem", {}, NoDefault),
                            SerialParameter("v", "vector<SItem>", {}, NoDefault),
                            SerialParameter("m", "map<u32,u32>", {}, NoDefault),
                            SerialParameter("ptr", "IBase*", {}, NoDefault) >>
      [] T = "CA"     -> << SerialParameter("a", "u32", {}, 0) >>
      [] T = "CB"     -> << SerialParameter("b", "u32", {SH_Optional}, 0) >>
      [] T = "CN"     -> << SerialParameter("n", "IBase*", {}, NoDefault) >>
      [] T = "SNode"  -> << SerialParameter("ptr", "IBase*", {}, NoDefault) >>
      [] T = "SPtrs"  -> << SerialParameter("pp", "u32*", {}, NoDefault),
                            SerialParameter("mp", "SItem*", {}, NoDefault) >>
      [] T = "SAttr"  -> << SerialParameter("v", "vector<SItem>", {}, NoDefault),
                            SerialParameter("p", "IBase*", {}, NoDefault),
                            SerialParameter("at", "SItem", {SH_Attribute}, NoDefault) >>
      [] OTHER        -> << >>

\* The concrete class a Type() discriminant of IBase stands for
ClassOfType(t) == IF t = 1 THEN "CA" ELSE IF t = 2 THEN "CB" ELSE "CN"

\* SerialType<ValueType>::Type and IS_ABSTRACT select the operator<< overload
Strategy(T) ==
    IF T \in PrimTypes THEN "Primitive"
    ELSE IF IsContainer(T) THEN "Global"
    ELSE IF IsPointer(T) THEN "Abstract"
    ELSE IF T = "u32*" THEN "PrimitivePointer"
    ELSE IF T = "SItem*" THEN "MemberPointer"
    ELSE "Member"

\* The object graphs of each client class
SPrimsVals == [p : PrimVals, o : PrimVals, a : PrimVals, s : PrimVals]
SItemVals  == [x : PrimVals]
VectorVals == UNION {[1..n -> SItemVals] : n \in 0..MaxLen}
MapVals    == UNION {[K -> PrimVals] : K \in SUBSET PrimVals}
PtrVals    == {NullPtr} \cup [Type : {1}, a : PrimVals] \cup [Type : {2}, b : PrimVals]
SOuterVals == [in : SItemVals, v : VectorVals, m : MapVals, ptr : PtrVals]
NodeVals   == PtrVals \cup [Type : {3}, n : PtrVals]
SNodeVals  == [ptr : NodeVals]
RootTypes  == {"SPrims", "SOuter", "SNode"}
Graphs(T)  == IF T = "SPrims" THEN SPrimsVals
              ELSE IF T = "SOuter" THEN SOuterVals ELSE SNodeVals

\* The object graphs of the client classes of a versioned file: pointers to a
\* primitive and to a class that is not abstract (the Type of their pointee
\* only tells it from a null pointer), and a class that hints one of its
\* member objects SH_Attribute
U32PtrVals   == {NullPtr} \cup [Type : {5}, val : PrimVals]
SItemPtrVals == {NullPtr} \cup [Type : {4}, x : PrimVals]
SPtrsVals    == [pp : U32PtrVals, mp : SItemPtrVals]
SAttrVals    == [v : {<< >>, << [x |-> 0] >>}, p : {NullPtr, [Type |-> 1, a |-> 0]},
                 at : SItemVals]
FileTypes    == {"SPtrs", "SAttr"}
FileGraphs(T) == IF T = "SPtrs" THEN SPtrsVals ELSE SAttrVals

\* A newly constructed object: primitives unassigned, containers empty,
\* pointers null
Construct(T) ==
    CASE T = "u32"    -> Junk
      [] T = "SPrims" -> [p |-> Junk, o |-> Junk, a |-> Junk, s |-> Junk]
      [] T = "SItem"  -> [x |-> Junk]
      [] T = "SOuter" -> [in |-> [x |-> Junk], v |-> << >>, m |-> << >>, ptr |-> NullPtr]
      [] T = "CA"     -> [Type |-> 1, a |-> Junk]
      [] T = "CB"     -> [Type |-> 2, b |-> Junk]
      [] T = "CN"     -> [Type |-> 3, n |-> NullPtr]
      [] T = "SNode"  -> [ptr |-> NullPtr]
      [] T = "IBase*" -> NullPtr
      [] T = "SPtrs"  -> [pp |-> NullPtr, mp |-> NullPtr]
      [] T = "SAttr"  -> [v |-> << >>, p |-> NullPtr, at |-> [x |-> Junk]]
      [] OTHER        -> << >>

\* new ValType of the pointer overloads of operator<<
New(T) == IF T = "u32*" THEN [Type |-> 5, val |-> Junk] ELSE [Type |-> 4, x |-> Junk]

\* The objects a reader of a versioned file is run on: a newly constructed
\* one, or one whose pointers already hold objects
ReadTargets(T) ==
    {Construct(T)} \cup
    (IF T = "SPtrs" THEN {[pp |-> [Type |-> 5, val |-> 0], mp |-> [Type |-> 4, x |-> 0]]}
     ELSE {})

\* Mutant of ArchiveConstructor: every discriminant builds the first class.
ArchiveConstructor_FirstClass(t) == Construct("CA")

\* ValType::ArchiveConstructor(Type): the factory of IBase
ArchiveConstructor(t) == IF t \in {1, 2, 3} THEN Construct(ClassOfType(t)) ELSE NullPtr

\* Addresses: a path of steps from the root object (k = "obj") or the name of
\* a local variable of a Serialize function running on the object at a path
\* (k = "tmp")
Step(f, i) == [f |-> f, i |-> i]
ObjPtr(path) == [k |-> "obj", p |-> path]
TmpPtr(path, name) == [k |-> "tmp", p |-> Append(path, Step(name, 0))]
FieldPtr(ptr, name) == [k |-> ptr.k, p |-> Append(ptr.p, Step(name, 0))]

RECURSIVE Get(_, _)
Get(v, path) ==
    IF path = << >> THEN v
    ELSE LET e == Head(path)
         IN Get(IF e.f = "Item" THEN v[e.i] ELSE v[e.f], Tail(path))

RECURSIVE Put(_, _, _)
Put(v, path, x) ==
    IF path = << >> THEN x
    ELSE LET e == Head(path)
         IN IF e.f = "Item"
            THEN [v EXCEPT ![e.i] = Put(v[e.i], Tail(path), x)]
            ELSE [v EXCEPT ![e.f] = Put(v[e.f], Tail(path), x)]

\* std::vector<T>::resize
Resize(vec, n, T) == [i \in 1..n |-> IF i <= Len(vec) THEN vec[i] ELSE Construct(T)]

\* ParameterMatchesDefault
ParameterMatchesDefault(d, v) ==
    /\ SupportsDefaultValues(d.type)
    /\ d.pDefaultValue # NoDefault
    /\ v = d.pDefaultValue

\* Mutant of InitParameterToDefault: the parameter is left as it was.
InitParameterToDefault_Noop(d, v) == v

\* InitParameterToDefault: the value of the parameter afterwards
InitParameterToDefault(d, v) ==
    IF SupportsDefaultValues(d.type) /\ d.pDefaultValue # NoDefault
    THEN d.pDefaultValue
    ELSE v

\* Mutant of ShouldSerializeParameter: SH_Optional is not honoured.
ShouldSerializeParameter_NoOptional(flags, d, v) ==
    IF AF_NoSkipping \in flags THEN TRUE
    ELSE IF AF_Writer \in flags /\ SH_NeverSave \in d.HintFlags THEN FALSE
    ELSE TRUE

\* Mutant of ShouldSerializeParameter: SH_NeverSave is tested before
\* AF_NoSkipping.
ShouldSerializeParameter_NeverSaveFirst(flags, d, v) ==
    IF AF_Writer \in flags /\ SH_NeverSave \in d.HintFlags THEN FALSE
    ELSE IF AF_NoSkipping \in flags THEN TRUE
    ELSE ~(/\ AF_Writer \in flags
           /\ SH_Optional \in d.HintFlags
           /\ SH_AlwaysSave \notin d.HintFlags
           /\ ParameterMatchesDefault(d, v))

\* IArchive::ShouldSerializeParameter
ShouldSerializeParameter(flags, d, v) ==
    IF AF_NoSkipping \in flags THEN TRUE
    ELSE IF AF_Writer \in flags
         THEN IF SH_NeverSave \in d.HintFlags THEN FALSE
              ELSE IF /\ SH_Optional \in d.HintFlags
                      /\ SH_AlwaysSave \notin d.HintFlags
                      /\ ParameterMatchesDefault(d, v)
                   THEN FALSE
                   ELSE TRUE
         ELSE TRUE

\* IArchive::PushParameter
PushParameter(stack, d, ptr) ==
    Append(stack, [TypeID |-> d.type, pDataPointer |-> ptr, HintFlags |-> d.HintFlags])

\* Mutant of PushParameterCheck: the assertion never fails.
PushParameterCheck_Always(stack) == TRUE

\* The debug-build assertion of PushParameter: attribute properties cannot
\* have children
PushParameterCheck(stack) ==
    Len(stack) > 0 => SH_Attribute \notin stack[Len(stack)].HintFlags

\* The debug-build assertions of PopParameter
PopParameterChecks(stack, d, ptr) ==
    /\ Len(stack) > 0
    /\ stack[Len(stack)].TypeID = d.type
    /\ stack[Len(stack)].pDataPointer = ptr

\* Mutant of PopParameter: the frame is left on the stack.
PopParameter_Keep(stack, d, ptr) == stack

\* IArchive::PopParameter
PopParameter(stack, d, ptr) == SubSeq(stack, 1, Len(stack) - 1)

\* The null result of FindParentObject
NoPtr == [k |-> "null", p |-> << >>]

\* The types a client may ask FindParentObject for
ArcTypes == {"u32", "SItem", "SOuter", "SNode", "vector<SItem>", "IBase*"}

\* Mutant of FindParentObject: the scan starts at the top frame.
FindParentObject_FromTop(stack, T) ==
    LET hits == {i \in 1..Len(stack) : stack[i].TypeID = T}
    IN IF hits = {} THEN NoPtr
       ELSE stack[CHOOSE i \in hits : \A j \in hits : j <= i].pDataPointer

\* The loop of FindParentObject from index ParmIdx (counted from 1) downwards
RECURSIVE FindParentObjectFrom(_, _, _)
FindParentObjectFrom(stack, T, ParmIdx) ==
    IF ParmIdx < 1 THEN NoPtr
    ELSE IF stack[ParmIdx].TypeID = T THEN stack[ParmIdx].pDataPointer
    ELSE FindParentObjectFrom(stack, T, ParmIdx - 1)

\* IArchive::FindParentObject<T>
FindParentObject(stack, T) == FindParentObjectFrom(stack, T, Len(stack) - 1)

\* ---- the format backend: a document of nodes, each the child of a node
\* (0 is the document itself), and the stack of open scopes with, for each,
\* the last child element entered
NewNode(parent, name, hints) ==
    [parent |-> parent, pkName |-> name, attr |-> SH_Attribute \in hints,
     val |-> NoValue, null |-> FALSE]
RootScope == << [node |-> 0, last |-> 0] >>
CurNode(scope) == scope[Len(scope)].node

\* ParamBegin: a writer opens a new node; a reader enters the attribute of
\* that name, or the next element (SH_IgnoreName) or the next element of that
\* name, and declines when there is none
ParamBegin(nodes, scope, flags, name, hints) ==
    LET top  == scope[Len(scope)]
        attr == SH_Attribute \in hints
    IN IF AF_Writer \in flags
       THEN [ret |-> TRUE,
             nodes |-> Append(nodes, NewNode(top.node, name, hints)),
             scope |-> Append(scope, [node |-> Len(nodes) + 1, last |-> 0])]
       ELSE
        LET cands == {i \in 1..Len(nodes) :
                        /\ nodes[i].parent = top.node
                        /\ nodes[i].attr = attr
                        /\ IF attr THEN nodes[i].pkName = name
                           ELSE /\ i > top.last
                                /\ SH_IgnoreName \in hints \/ nodes[i].pkName = name}
        IN IF cands = {} THEN [ret |-> FALSE, nodes |-> nodes, scope |-> scope]
           ELSE [ret |-> TRUE, nodes |-> nodes,
                 scope |-> Append([scope EXCEPT ![Len(scope)].last =
                                       IF attr THEN @ ELSE SetMin(cands)],
                                  [node |-> SetMin(cands), last |-> 0])]

\* ParamEnd
ParamEnd(scope) == SubSeq(scope, 1, Len(scope) - 1)

\* PreSerializePointer: a writer records a null pointer in the open node and
\* refuses; a reader refuses at a node so marked
PreSerializePointer(nodes, scope, flags, v) ==
    IF AF_Writer \in flags
    THEN IF v = NullPtr
         THEN [ret |-> FALSE, nodes |-> [nodes EXCEPT ![CurNode(scope)].null = TRUE]]
         ELSE [ret |-> TRUE, nodes |-> nodes]
    ELSE [ret |-> ~nodes[CurNode(scope)].null, nodes |-> nodes]

\* ---- the pending work of the traversal: the statements still to run, those
\* of the innermost call first.  depth is the number of operator<< calls the
\* statement runs inside.
NoParam == SerialParameter("", "", {}, NoDefault)
Item(op, d, ptr, depth, n, s) ==
    [op |-> op, d |-> d, ptr |-> ptr, depth |-> depth, n |-> n, s |-> s]

SizeParam == SerialParameter("Size", "u32", {SH_Attribute}, 0)
TypeParam == SerialParameter("Type", "u32", {SH_Attribute}, 0)
ItemParam(T) == SerialParameter("Item", T, {SH_IgnoreName}, 0)
KeyParam == SerialParameter("Key", "u32", {SH_IgnoreName}, 0)
ValueParam == SerialParameter("Value", "u32", {SH_IgnoreName}, 0)

\* the << chain of a class's Serialize, run on the object at ptr
FieldItems(T, ptr, depth) ==
    [i \in 1..Len(Fields(T)) |->
        Item("param", Fields(T)[i], FieldPtr(ptr, Fields(T)[i].pkName), depth, 0, "")]

\* what operator<< does between ParamBegin and ParamEnd, by overload
Body(d, ptr, depth) ==
    CASE Strategy(d.type) = "Primitive" -> << Item("prim", d, ptr, depth, 0, "") >>
      [] Strategy(d.type) = "Abstract"  -> << Item("pointer", d, ptr, depth, 0, "") >>
      [] Strategy(d.type) = "PrimitivePointer"
                                        -> << Item("primPointer", d, ptr, depth, 0, "") >>
      [] Strategy(d.type) = "MemberPointer"
                                        -> << Item("memberPointer", d, ptr, depth, 0, "") >>
      [] OTHER                          -> << Item("serialize", d, ptr, depth, 0, "") >>

\* ------------------------------------------------------ archive actions
ArcInit ==
    /\ arcMode = "idle"
    /\ mArchiveFlags = {}
    /\ debugBuild = TRUE
    /\ arcRoot = ""
    /\ arcSrc = << >>
    /\ arcObj = << >>
    /\ arcTmp = << >>
    /\ mParmStack = << >>
    /\ arcNodes = << >>
    /\ arcScope = RootScope
    /\ arcAgenda = << >>
    /\ arcLast = [op |-> "none", d |-> NoParam, ptr |-> ObjPtr(<< >>), how |-> ""]

ArcRunning == arcMode \in {"w", "r"} /\ arcAgenda # << >>
IsWriter == AF_Writer \in mArchiveFlags
IsReader == AF_Reader \in mArchiveFlags
Cur == Head(arcAgenda)
Rest == Tail(arcAgenda)

Deref(ptr) == IF ptr.k = "tmp" THEN arcTmp[ptr.p] ELSE Get(arcObj, ptr.p)
StoreTo(ptr, x) ==
    /\ arcObj' = IF ptr.k = "obj" THEN Put(arcObj, ptr.p, x) ELSE arcObj
    /\ arcTmp' = IF ptr.k = "tmp" THEN MapPut(arcTmp, ptr.p, x) ELSE arcTmp
Step1(op, how) == arcLast' = [op |-> op, d |-> Cur.d, ptr |-> Cur.ptr, how |-> how]

RootParam(T) == SerialParameter("Root", T, {}, NoDefault)

\* A writer archive is opened on an object graph and the graph is passed to <<
DoOpenWriter ==
    /\ arcMode = "idle"
    /\ \E T \in RootTypes, skip \in BOOLEAN :
         \E G \in Graphs(T) :
            /\ arcRoot' = T
            /\ arcSrc' = G
            /\ arcObj' = G
            /\ mArchiveFlags' = {AF_Writer} \cup (IF skip THEN {} ELSE {AF_NoSkipping})
            /\ arcAgenda' = << Item("param", RootParam(T), ObjPtr(<< >>), 0, 0, "") >>
    /\ arcMode' = "w"
    /\ arcLast' = [op |-> "open", d |-> NoParam, ptr |-> ObjPtr(<< >>), how |-> "w"]
    /\ UNCHANGED <<debugBuild, arcTmp, mParmStack, arcNodes, arcScope>>

\* A reader archive is opened on the document the writer produced, and a newly
\* constructed object of the same class is passed to <<
DoOpenReader ==
    /\ arcMode = "w" /\ arcAgenda = << >>
    /\ arcMode' = "r"
    /\ mArchiveFlags' = {AF_Reader} \cup (mArchiveFlags \cap {AF_NoSkipping})
    /\ arcObj' = Construct(arcRoot)
    /\ arcTmp' = << >>
    /\ mParmStack' = << >>
    /\ arcScope' = RootScope
    /\ arcAgenda' = << Item("param", RootParam(arcRoot), ObjPtr(<< >>), 0, 0, "") >>
    /\ arcLast' = [op |-> "open", d |-> NoParam, ptr |-> ObjPtr(<< >>), how |-> "r"]
    /\ UNCHANGED <<debugBuild, arcRoot, arcSrc, arcNodes>>

\* The containers a client passes to << on their own, with their values
ContainerTypes == {"vector<SItem>", "map<u32,u32>"}
Containers(T) == IF T = "vector<SItem>" THEN VectorVals ELSE MapVals

\* A writer archive is opened and a container is passed to <<
DoOpenContainerWriter ==
    /\ arcMode = "idle"
    /\ \E T \in ContainerTypes, skip \in BOOLEAN :
         \E G \in Containers(T) :
            /\ arcRoot' = T
            /\ arcSrc' = G
            /\ arcObj' = G
            /\ mArchiveFlags' = {AF_Writer} \cup (IF skip THEN {} ELSE {AF_NoSkipping})
            /\ arcAgenda' = << Item("param", RootParam(T), ObjPtr(<< >>), 0, 0, "") >>
    /\ arcMode' = "w"
    /\ arcLast' = [op |-> "open", d |-> NoParam, ptr |-> ObjPtr(<< >>), how |-> "w"]
    /\ UNCHANGED <<debugBuild, arcTmp, mParmStack, arcNodes, arcScope>>

\* A reader archive is opened on the document the writer produced, and a
\* container of the same type, empty or holding elements, is passed to <<
DoOpenContainerReader ==
    /\ arcMode = "w" /\ arcAgenda = << >>
    /\ arcMode' = "r"
    /\ mArchiveFlags' = {AF_Reader} \cup (mArchiveFlags \cap {AF_NoSkipping})
    /\ arcObj' \in Containers(arcRoot)
    /\ arcTmp' = << >>
    /\ mParmStack' = << >>
    /\ arcScope' = RootScope
    /\ arcAgenda' = << Item("param", RootParam(arcRoot), ObjPtr(<< >>), 0, 0, "") >>
    /\ arcLast' = [op |-> "open", d |-> NoParam, ptr |-> ObjPtr(<< >>), how |-> "r"]
    /\ UNCHANGED <<debugBuild, arcRoot, arcSrc, arcNodes>>

\* The reader has returned
DoClose ==
    /\ arcMode = "r" /\ arcAgenda = << >>
    /\ arcMode' = "done"
    /\ arcLast' = [op |-> "close", d |-> NoParam, ptr |-> ObjPtr(<< >>), how |-> ""]
    /\ UNCHANGED <<mArchiveFlags, debugBuild, arcRoot, arcSrc, arcObj, arcTmp, mParmStack, arcNodes,
                   arcScope, arcAgenda>>

\* Mutant of DoSerialParameter: ParamEnd is called after the branch, whether
\* or not ParamBegin opened a scope.
DoSerialParameter_EndsOutsideBranch ==
    /\ ArcRunning /\ Cur.op = "param"
    /\ LET d      == Cur.d
           ptr    == Cur.ptr
           v      == Deref(ptr)
           failed == \/ Strategy(d.type) = "PrimitivePointer" /\ IsWriter /\ v = NullPtr
                     \/ debugBuild /\ ~PushParameterCheck(mParmStack)
           should == ShouldSerializeParameter(mArchiveFlags, d, v)
           begin  == IF should
                     THEN ParamBegin(arcNodes, arcScope, mArchiveFlags, d.pkName, d.HintFlags)
                     ELSE [ret |-> FALSE, nodes |-> arcNodes, scope |-> arcScope]
           how    == IF ~should THEN "skipped"
                     ELSE IF begin.ret THEN "entered" ELSE "declined"
           pop    == Item("pop", d, ptr, Cur.depth + 1, Len(mParmStack), how)
       IN IF failed
          THEN /\ arcMode' = "assert"
               /\ Step1("param", "assert")
               /\ UNCHANGED <<arcObj, arcTmp, mParmStack, arcNodes, arcScope, arcAgenda>>
          ELSE /\ mParmStack' = PushParameter(mParmStack, d, ptr)
               /\ arcNodes' = begin.nodes
               /\ arcScope' = begin.scope
               /\ IF begin.ret
                  THEN /\ arcAgenda' = Body(d, ptr, Cur.depth + 1)
                                       \o << Item("end", d, ptr, Cur.depth + 1, 0, ""), pop >>
                                       \o Rest
                       /\ UNCHANGED <<arcObj, arcTmp>>
                  ELSE /\ arcAgenda' = << Item("end", d, ptr, Cur.depth + 1, 0, ""), pop >> \o Rest
                       /\ IF IsReader /\ Strategy(d.type) \in {"Primitive", "Global", "Member"}
                          THEN StoreTo(ptr, InitParameterToDefault(d, v))
                          ELSE UNCHANGED <<arcObj, arcTmp>>
               /\ Step1("param", how)
               /\ UNCHANGED arcMode
    /\ UNCHANGED <<mArchiveFlags, debugBuild, arcRoot, arcSrc>>

\* IArchive::operator<< up to the call of the strategy: the assertion of the
\* primitive pointer overload on a writer's null pointer, PushParameter with
\* its debug-build assertion, ShouldSerializeParameter, ParamBegin, and the
\* else branch (InitParameterToDefault; the pointer overloads have none)
DoSerialParameter ==
    /\ ArcRunning /\ Cur.op = "param"
    /\ LET d      == Cur.d
           ptr    == Cur.ptr
           v      == Deref(ptr)
           failed == \/ Strategy(d.type) = "PrimitivePointer" /\ IsWriter /\ v = NullPtr
                     \/ debugBuild /\ ~PushParameterCheck(mParmStack)
           should == ShouldSerializeParameter(mArchiveFlags, d, v)
           begin  == IF should
                     THEN ParamBegin(arcNodes, arcScope, mArchiveFlags, d.pkName, d.HintFlags)
                     ELSE [ret |-> FALSE, nodes |-> arcNodes, scope |-> arcScope]
           how    == IF ~should THEN "skipped"
                     ELSE IF begin.ret THEN "entered" ELSE "declined"
           pop    == Item("pop", d, ptr, Cur.depth + 1, Len(mParmStack), how)
       IN IF failed
          THEN /\ arcMode' = "assert"
               /\ Step1("param", "assert")
               /\ UNCHANGED <<arcObj, arcTmp, mParmStack, arcNodes, arcScope, arcAgenda>>
          ELSE /\ mParmStack' = PushParameter(mParmStack, d, ptr)
               /\ arcNodes' = begin.nodes
               /\ arcScope' = begin.scope
               /\ IF begin.ret
                  THEN /\ arcAgenda' = Body(d, ptr, Cur.depth + 1)
                                       \o << Item("end", d, ptr, Cur.depth + 1, 0, ""), pop >>
                                       \o Rest
                       /\ UNCHANGED <<arcObj, arcTmp>>
                  ELSE /\ arcAgenda' = << pop >> \o Rest
                       /\ IF IsReader /\ Strategy(d.type) \in {"Primitive", "Global", "Member"}
                          THEN StoreTo(ptr, InitParameterToDefault(d, v))
                          ELSE UNCHANGED <<arcObj, arcTmp>>
               /\ Step1("param", how)
               /\ UNCHANGED arcMode
    /\ UNCHANGED <<mArchiveFlags, debugBuild, arcRoot, arcSrc>>

\* SerializePrimitive(rParam.rValue, rParam.HintFlags) of the backend
DoSerializePrimitive ==
    /\ ArcRunning /\ Cur.op = "prim"
    /\ IF IsWriter
       THEN /\ arcNodes' = [arcNodes EXCEPT ![CurNode(arcScope)].val = Deref(Cur.ptr)]
            /\ UNCHANGED <<arcObj, arcTmp>>
       ELSE /\ StoreTo(Cur.ptr, arcNodes[CurNode(arcScope)].val)
            /\ UNCHANGED arcNodes
    /\ arcAgenda' = Rest
    /\ Step1("prim", "")
    /\ UNCHANGED <<arcMode, mArchiveFlags, debugBuild, arcRoot, arcSrc, mParmStack, arcScope>>

\* ParamEnd() at the end of the branch ParamBegin opened
DoParamEnd ==
    /\ ArcRunning /\ Cur.op = "end"
    /\ arcScope' = ParamEnd(arcScope)
    /\ arcAgenda' = Rest
    /\ Step1("end", "")
    /\ UNCHANGED <<arcMode, mArchiveFlags, debugBuild, arcRoot, arcSrc, arcObj, arcTmp, mParmStack,
                   arcNodes>>

\* PopParameter(rParam) at the end of operator<<
DoPopParameter ==
    /\ ArcRunning /\ Cur.op = "pop"
    /\ mParmStack' = PopParameter(mParmStack, Cur.d, Cur.ptr)
    /\ arcAgenda' = Rest
    /\ Step1("pop", Cur.s)
    /\ UNCHANGED <<arcMode, mArchiveFlags, debugBuild, arcRoot, arcSrc, arcObj, arcTmp, arcNodes,
                   arcScope>>

\* rParam.rValue.Serialize(*this) of a client class, and the global
\* Serialize(Arc, container) up to the return of SerializeArraySize
DoSerialize ==
    /\ ArcRunning /\ Cur.op = "serialize"
    /\ LET T == Cur.d.type
           size == TmpPtr(Cur.ptr.p, "Size")
       IN IF IsContainer(T)
          THEN /\ arcTmp' = MapPut(arcTmp, size.p,
                                   IF T = "vector<SItem>" THEN Len(Deref(Cur.ptr))
                                   ELSE Cardinality(DOMAIN Deref(Cur.ptr)))
               /\ arcAgenda' = << Item("param", SizeParam, size, Cur.depth, 0, ""),
                                  Item(IF T = "vector<SItem>" THEN "vectorItems" ELSE "mapItems",
                                       Cur.d, Cur.ptr, Cur.depth, 0, "") >> \o Rest
          ELSE /\ arcAgenda' = FieldItems(T, Cur.ptr, Cur.depth) \o Rest
               /\ UNCHANGED arcTmp
    /\ Step1("serialize", "")
    /\ UNCHANGED <<arcMode, mArchiveFlags, debugBuild, arcRoot, arcSrc, arcObj, mParmStack, arcNodes,
                   arcScope>>

\* Mutant of DoVectorItems: the elements are passed to << from the last to
\* the first.
DoVectorItems_Reversed ==
    /\ ArcRunning /\ Cur.op = "vectorItems"
    /\ LET size == TmpPtr(Cur.ptr.p, "Size")
           Size == arcTmp[size.p]
       IN /\ arcObj' = IF IsReader
                       THEN Put(arcObj, Cur.ptr.p, Resize(Deref(Cur.ptr), Size, "SItem"))
                       ELSE arcObj
          /\ arcTmp' = MapErase(arcTmp, size.p)
          /\ arcAgenda' = [i \in 1..Size |->
                              Item("param", ItemParam("SItem"),
                                   ObjPtr(Append(Cur.ptr.p, Step("Item", Size + 1 - i))),
                                   Cur.depth, 0, "")] \o Rest
    /\ Step1("vectorItems", "")
    /\ UNCHANGED <<arcMode, mArchiveFlags, debugBuild, arcRoot, arcSrc, mParmStack, arcNodes, arcScope>>

\* Serialize(IArchive&, std::vector<T>&) after SerializeArraySize: resize in a
\* reader, then one << per element
DoVectorItems ==
    /\ ArcRunning /\ Cur.op = "vectorItems"
    /\ LET size == TmpPtr(Cur.ptr.p, "Size")
           Size == arcTmp[size.p]
       IN /\ arcObj' = IF IsReader
                       THEN Put(arcObj, Cur.ptr.p, Resize(Deref(Cur.ptr), Size, "SItem"))
                       ELSE arcObj
          /\ arcTmp' = MapErase(arcTmp, size.p)
          /\ arcAgenda' = [i \in 1..Size |->
                              Item("param", ItemParam("SItem"),
                                   ObjPtr(Append(Cur.ptr.p, Step("Item", i))),
                                   Cur.depth, 0, "")] \o Rest
    /\ Step1("vectorItems", "")
    /\ UNCHANGED <<arcMode, mArchiveFlags, debugBuild, arcRoot, arcSrc, mParmStack, arcNodes, arcScope>>

\* SerializeMap_Internal after SerializeArraySize: one loop iteration per
\* element (Size of them in a reader, Map.size() of them in a writer)
DoMapItems ==
    /\ ArcRunning /\ Cur.op = "mapItems"
    /\ LET size == TmpPtr(Cur.ptr.p, "Size")
           n == IF IsReader THEN arcTmp[size.p] ELSE Cardinality(DOMAIN Deref(Cur.ptr))
       IN /\ arcTmp' = MapErase(arcTmp, size.p)
          /\ arcAgenda' = [i \in 1..n |->
                              Item("mapItemBegin", Cur.d, Cur.ptr, Cur.depth, i, "")] \o Rest
    /\ Step1("mapItems", "")
    /\ UNCHANGED <<arcMode, mArchiveFlags, debugBuild, arcRoot, arcSrc, arcObj, mParmStack, arcNodes,
                   arcScope>>

\* One iteration of the loop of SerializeMap_Internal up to the << of Key and
\* Value: the locals Key and Val (copies of the i-th element in a writer) and
\* Arc.ParamBegin("Item", SH_IgnoreName)
DoMapItemBegin ==
    /\ ArcRunning /\ Cur.op = "mapItemBegin"
    /\ LET key == TmpPtr(Cur.ptr.p, "Key")
           val == TmpPtr(Cur.ptr.p, "Val")
           Map == Deref(Cur.ptr)
           k   == SortedSeq(DOMAIN Map)[Cur.n]
           begin == ParamBegin(arcNodes, arcScope, mArchiveFlags, "Item", {SH_IgnoreName})
       IN /\ arcNodes' = begin.nodes
          /\ arcScope' = begin.scope
          /\ arcTmp' = IF IsWriter
                       THEN MapPut(MapPut(arcTmp, key.p, k), val.p, Map[k])
                       ELSE MapPut(MapPut(arcTmp, key.p, Junk), val.p, Junk)
          /\ arcAgenda' = IF begin.ret
                          THEN << Item("param", KeyParam, key, Cur.depth, 0, ""),
                                  Item("param", ValueParam, val, Cur.depth, 0, ""),
                                  Item("mapItemEnd", Cur.d, Cur.ptr, Cur.depth, Cur.n, "in") >>
                               \o Rest
                          ELSE << Item("mapItemEnd", Cur.d, Cur.ptr, Cur.depth, Cur.n, "") >>
                               \o Rest
    /\ Step1("mapItemBegin", "")
    /\ UNCHANGED <<arcMode, mArchiveFlags, debugBuild, arcRoot, arcSrc, arcObj, mParmStack>>

\* Mutant of DoMapItemEnd: no assertion; a key the map holds is assigned the
\* value read.
DoMapItemEnd_Overwrites ==
    /\ ArcRunning /\ Cur.op = "mapItemEnd"
    /\ LET key == TmpPtr(Cur.ptr.p, "Key")
           val == TmpPtr(Cur.ptr.p, "Val")
           Map == Deref(Cur.ptr)
           dup == FALSE
       IN /\ arcMode' = IF dup THEN "assert" ELSE arcMode
          /\ arcObj' = IF Cur.s = "in" /\ IsReader /\ ~dup
                       THEN Put(arcObj, Cur.ptr.p, MapPut(Map, arcTmp[key.p], arcTmp[val.p]))
                       ELSE arcObj
          /\ arcScope' = IF Cur.s = "in" /\ ~dup THEN ParamEnd(arcScope) ELSE arcScope
          /\ arcTmp' = MapErase(MapErase(arcTmp, key.p), val.p)
          /\ arcAgenda' = Rest
    /\ Step1("mapItemEnd", "")
    /\ UNCHANGED <<mArchiveFlags, debugBuild, arcRoot, arcSrc, mParmStack, arcNodes>>

\* The rest of the iteration: in a reader ASSERT(Map.find(Key) == Map.end())
\* and Map[Key] = Val; Arc.ParamEnd(); Key and Val go out of scope
DoMapItemEnd ==
    /\ ArcRunning /\ Cur.op = "mapItemEnd"
    /\ LET key == TmpPtr(Cur.ptr.p, "Key")
           val == TmpPtr(Cur.ptr.p, "Val")
           Map == Deref(Cur.ptr)
           dup == Cur.s = "in" /\ IsReader /\ arcTmp[key.p] \in DOMAIN Map
       IN /\ arcMode' = IF dup THEN "assert" ELSE arcMode
          /\ arcObj' = IF Cur.s = "in" /\ IsReader /\ ~dup
                       THEN Put(arcObj, Cur.ptr.p, MapPut(Map, arcTmp[key.p], arcTmp[val.p]))
                       ELSE arcObj
          /\ arcScope' = IF Cur.s = "in" /\ ~dup THEN ParamEnd(arcScope) ELSE arcScope
          /\ arcTmp' = MapErase(MapErase(arcTmp, key.p), val.p)
          /\ arcAgenda' = Rest
    /\ Step1("mapItemEnd", "")
    /\ UNCHANGED <<mArchiveFlags, debugBuild, arcRoot, arcSrc, mParmStack, arcNodes>>

\* The polymorphic operator<< from PreSerializePointer to the << of "Type"
DoPointer ==
    /\ ArcRunning /\ Cur.op = "pointer"
    /\ LET v    == Deref(Cur.ptr)
           pre  == PreSerializePointer(arcNodes, arcScope, mArchiveFlags, v)
           type == TmpPtr(Cur.ptr.p, "Type")
       IN /\ arcNodes' = pre.nodes
          /\ IF pre.ret
             THEN /\ arcTmp' = MapPut(arcTmp, type.p, v.Type)
                  /\ arcAgenda' = << Item("param", TypeParam, type, Cur.depth, 0, ""),
                                     Item("pointee", Cur.d, Cur.ptr, Cur.depth, v.Type, "") >>
                                  \o Rest
                  /\ UNCHANGED arcObj
             ELSE /\ arcAgenda' = Rest
                  /\ IF IsReader THEN StoreTo(Cur.ptr, NullPtr)
                     ELSE UNCHANGED <<arcObj, arcTmp>>
    /\ Step1("pointer", "")
    /\ UNCHANGED <<arcMode, mArchiveFlags, debugBuild, arcRoot, arcSrc, mParmStack, arcScope>>

\* The polymorphic operator<< after the << of "Type": a reader instantiates
\* the object if the pointer is null and else asserts Type == TypeCopy; then
\* rParam.rValue->Serialize(*this) if the object exists
DoPointee ==
    /\ ArcRunning /\ Cur.op = "pointee"
    /\ LET v    == Deref(Cur.ptr)
           type == TmpPtr(Cur.ptr.p, "Type")
           Type == arcTmp[type.p]
           mismatch == IsReader /\ v # NullPtr /\ Type # Cur.n
           obj  == IF IsReader /\ v = NullPtr THEN ArchiveConstructor(Type) ELSE v
       IN /\ arcMode' = IF mismatch THEN "assert" ELSE arcMode
          /\ arcObj' = Put(arcObj, Cur.ptr.p, obj)
          /\ arcTmp' = MapErase(arcTmp, type.p)
          /\ arcAgenda' = IF obj # NullPtr /\ ~mismatch
                          THEN FieldItems(ClassOfType(obj.Type), Cur.ptr, Cur.depth) \o Rest
                          ELSE Rest
    /\ Step1("pointee", "")
    /\ UNCHANGED <<mArchiveFlags, debugBuild, arcRoot, arcSrc, mParmStack, arcNodes, arcScope>>

\* The primitive pointer operator<< from PreSerializePointer on: a reader
\* allocates the pointee of a null pointer; SerializePrimitive of the pointee
\* when there is one; a reader the backend refused nulls the pointer
DoPrimitivePointer ==
    /\ ArcRunning /\ Cur.op = "primPointer"
    /\ LET v   == Deref(Cur.ptr)
           pre == PreSerializePointer(arcNodes, arcScope, mArchiveFlags, v)
           obj == IF v = NullPtr /\ IsReader THEN New(Cur.d.type) ELSE v
       IN /\ arcNodes' = pre.nodes
          /\ IF pre.ret
             THEN /\ StoreTo(Cur.ptr, obj)
                  /\ arcAgenda' = IF obj # NullPtr
                                  THEN << Item("prim", Cur.d, FieldPtr(Cur.ptr, "val"),
                                               Cur.depth, 0, "") >> \o Rest
                                  ELSE Rest
             ELSE /\ arcAgenda' = Rest
                  /\ IF IsReader THEN StoreTo(Cur.ptr, NullPtr)
                     ELSE UNCHANGED <<arcObj, arcTmp>>
          /\ Step1("primPointer", IF pre.ret THEN "accepted" ELSE "refused")
    /\ UNCHANGED <<arcMode, mArchiveFlags, debugBuild, arcRoot, arcSrc, mParmStack, arcScope>>

\* Mutant of DoMemberPointer: a reader the backend refused keeps its pointer.
DoMemberPointer_KeepsPointer ==
    /\ ArcRunning /\ Cur.op = "memberPointer"
    /\ LET v   == Deref(Cur.ptr)
           pre == PreSerializePointer(arcNodes, arcScope, mArchiveFlags, v)
           obj == IF v = NullPtr /\ IsReader THEN New(Cur.d.type) ELSE v
       IN /\ arcNodes' = pre.nodes
          /\ IF pre.ret
             THEN /\ StoreTo(Cur.ptr, obj)
                  /\ arcAgenda' = IF obj # NullPtr
                                  THEN FieldItems("SItem", Cur.ptr, Cur.depth) \o Rest
                                  ELSE Rest
             ELSE /\ arcAgenda' = Rest
                  /\ UNCHANGED <<arcObj, arcTmp>>
          /\ Step1("memberPointer", IF pre.ret THEN "accepted" ELSE "refused")
    /\ UNCHANGED <<arcMode, mArchiveFlags, debugBuild, arcRoot, arcSrc, mParmStack, arcScope>>

\* The member pointer operator<< (class not abstract) from PreSerializePointer
\* on: as the primitive one, with rParam.rValue->Serialize(*this)
DoMemberPointer ==
    /\ ArcRunning /\ Cur.op = "memberPointer"
    /\ LET v   == Deref(Cur.ptr)
           pre == PreSerializePointer(arcNodes, arcScope, mArchiveFlags, v)
           obj == IF v = NullPtr /\ IsReader THEN New(Cur.d.type) ELSE v
       IN /\ arcNodes' = pre.nodes
          /\ IF pre.ret
             THEN /\ StoreTo(Cur.ptr, obj)
                  /\ arcAgenda' = IF obj # NullPtr
                                  THEN FieldItems("SItem", Cur.ptr, Cur.depth) \o Rest
                                  ELSE Rest
             ELSE /\ arcAgenda' = Rest
                  /\ IF IsReader THEN StoreTo(Cur.ptr, NullPtr)
                     ELSE UNCHANGED <<arcObj, arcTmp>>
          /\ Step1("memberPointer", IF pre.ret THEN "accepted" ELSE "refused")
    /\ UNCHANGED <<arcMode, mArchiveFlags, debugBuild, arcRoot, arcSrc, mParmStack, arcScope>>

\* The members IArchive() initializes and SerializeVersion serializes
skCurrentArchiveVersion == 2      \* eArVer_Max - 1
eUnknownGame == 0
VersionMembers ==
    MapPut(MapPut(MapPut(<< >>, TmpPtr(<< >>, "mArchiveVersion").p, skCurrentArchiveVersion),
                  TmpPtr(<< >>, "mFileVersion").p, 0),
           TmpPtr(<< >>, "mGame").p, eUnknownGame)

\* IArchive::SetVersion(ArchiveVersion, FileVersion, Game)
SetVersion(members, ArchiveVersion, FileVersion, Game) ==
    MapPut(MapPut(MapPut(members, TmpPtr(<< >>, "mArchiveVersion").p, ArchiveVersion),
                  TmpPtr(<< >>, "mFileVersion").p, FileVersion),
           TmpPtr(<< >>, "mGame").p, Game)

\* Mutant of SerializeVersion: FileVer is not hinted SH_Optional.
SerializeVersion_FileVerRequired ==
    << Item("param", SerialParameter("ArchiveVer", "u32", {SH_Attribute}, NoDefault),
            TmpPtr(<< >>, "mArchiveVersion"), 0, 0, ""),
       Item("param", SerialParameter("FileVer", "u32", {SH_Attribute}, 0),
            TmpPtr(<< >>, "mFileVersion"), 0, 0, ""),
       Item("param", SerialParameter("Game", "u32", {SH_Attribute, SH_Optional}, eUnknownGame),
            TmpPtr(<< >>, "mGame"), 0, 0, "") >>

\* IArchive::SerializeVersion
SerializeVersion ==
    << Item("param", SerialParameter("ArchiveVer", "u32", {SH_Attribute}, NoDefault),
            TmpPtr(<< >>, "mArchiveVersion"), 0, 0, ""),
       Item("param", SerialParameter("FileVer", "u32", {SH_Attribute, SH_Optional}, 0),
            TmpPtr(<< >>, "mFileVersion"), 0, 0, ""),
       Item("param", SerialParameter("Game", "u32", {SH_Attribute, SH_Optional}, eUnknownGame),
            TmpPtr(<< >>, "mGame"), 0, 0, "") >>

\* A writer of a versioned file is opened (its constructor sets the version
\* of the file and the game and calls SerializeVersion) in a debug or a release
\* build, and an object graph is passed to <<
DoOpenFileWriter ==
    /\ arcMode = "idle"
    /\ \E T \in FileTypes, skip \in BOOLEAN, dbg \in BOOLEAN :
         \E G \in FileGraphs(T), FileVersion \in 0..MaxVal, Game \in 0..MaxVal :
            /\ arcTmp' = SetVersion(VersionMembers, skCurrentArchiveVersion, FileVersion, Game)
            /\ arcRoot' = T
            /\ arcSrc' = G
            /\ arcObj' = G
            /\ debugBuild' = dbg
            /\ mArchiveFlags' = {AF_Writer} \cup (IF skip THEN {} ELSE {AF_NoSkipping})
            /\ arcAgenda' = SerializeVersion
                            \o << Item("param", RootParam(T), ObjPtr(<< >>), 0, 0, "") >>
    /\ arcMode' = "w"
    /\ arcLast' = [op |-> "open", d |-> NoParam, ptr |-> ObjPtr(<< >>), how |-> "w"]
    /\ UNCHANGED <<mParmStack, arcNodes, arcScope>>

\* A reader of the versioned file the writer produced is opened, and an object
\* of the same class is passed to <<
DoOpenFileReader ==
    /\ arcMode = "w" /\ arcAgenda = << >>
    /\ arcMode' = "r"
    /\ mArchiveFlags' = {AF_Reader} \cup (mArchiveFlags \cap {AF_NoSkipping})
    /\ \E O \in ReadTargets(arcRoot) : arcObj' = O
    /\ arcTmp' = VersionMembers
    /\ mParmStack' = << >>
    /\ arcScope' = RootScope
    /\ arcAgenda' = SerializeVersion
                    \o << Item("param", RootParam(arcRoot), ObjPtr(<< >>), 0, 0, "") >>
    /\ arcLast' = [op |-> "open", d |-> NoParam, ptr |-> ObjPtr(<< >>), how |-> "r"]
    /\ UNCHANGED <<debugBuild, arcRoot, arcSrc, arcNodes>>

\* A Serialize method of a client calls FindParentObject<T>() while the
\* traversal is running
DoFindParentObject ==
    /\ ArcRunning
    /\ \E T \in ArcTypes :
         arcLast' = [op |-> "find", d |-> SerialParameter("", T, {}, NoDefault),
                     ptr |-> FindParentObject(mParmStack, T), how |-> ""]
    /\ UNCHANGED <<arcMode, mArchiveFlags, debugBuild, arcRoot, arcSrc, arcObj, arcTmp, mParmStack,
                   arcNodes, arcScope, arcAgenda>>

\* the steps of the archive leave the store and the files alone
ArcOnly == UNCHANGED <<storeVars, persistVars, loadVars>>

ArcNext ==
    \/ DoOpenWriter /\ ArcOnly
    \/ DoOpenReader /\ ArcOnly
    \/ DoClose /\ ArcOnly
    \/ DoSerialParameter /\ ArcOnly
    \/ DoSerializePrimitive /\ ArcOnly
    \/ DoParamEnd /\ ArcOnly
    \/ DoPopParameter /\ ArcOnly
    \/ DoSerialize /\ ArcOnly
    \/ DoVectorItems /\ ArcOnly
    \/ DoMapItems /\ ArcOnly
    \/ DoMapItemBegin /\ ArcOnly
    \/ DoMapItemEnd /\ ArcOnly
    \/ DoPointer /\ ArcOnly
    \/ DoPointee /\ ArcOnly

\* ----------------------------------------------------------------- Init
StoreInit ==
    /\ heap = [a \in Addr |-> FreeEntry]
    /\ mResourceEntries = <<>>
    /\ mLoadedResources = <<>>
    /\ ext = [a \in Addr |-> 0]
    /\ deps = [a \in Addr |-> {}]
    /\ dirs = (DbDir("") :> {})
    /\ mTransientRoots = <<>>
    /\ mpDatabaseRoot = TRUE
    /\ mpProj = 1
    /\ mTransientLoadDir = ""
    /\ mDatabaseDirty = FALSE
    /\ mCacheFileDirty = FALSE
    /\ halted = "none"
    /\ lastOp = NoOp

PersistInit ==
    /\ dbFile = <<>>
    /\ cacheDisk = NoFile
    /\ cacheFile = NoFile
    /\ cachePc = "idle"
    /\ cachePos = 0
    /\ iRes = 0
    /\ cacheFrom = [a \in Addr |-> 0]

\* DestroyUnreferencedResources is not running; while it runs: the size of
\* mLoadedResources at its call and the scans of the loop made so far
NoGC == [pc |-> "idle", start |-> 0, passes |-> 0]

\* no Load() is running, nor the collection
LoadInit == loading = << >> /\ gc = NoGC

Init == StoreInit /\ PersistInit /\ ArcInit /\ LoadInit

\* -------------------------------------------------------------- actions
Running == halted = "none" /\ cachePc = "idle"

\* the operation just made, for the properties below
Record(r) == lastOp' = r

FreeAddrs == {a \in Addr : ~heap[a].live}
NewAddr == SetMin(FreeAddrs)
LoadedAddrs == {a \in Addr : heap[a].live /\ heap[a].Loaded}

DoRegisterResource ==
    /\ Running
    /\ \E id \in IDs, x \in RegArgs :
         LET r == RegisterResource(St, NewAddr, id, x.type, x.dir, x.name)
         IN /\ \/ FreeAddrs # {}
               \/ FindEntry(St, id) # NULL /\ heap[FindEntry(St, id)].Transient
            /\ Commit(r.S)
            /\ Record([NoOp EXCEPT !.op = "RegisterResource", !.id = id, !.type = x.type,
                                   !.dir = x.dir,
                                   !.name = x.name, !.ret = r.ret, !.err = r.err])

DoRegisterTransientResourceRandom ==
    /\ Running /\ FreeAddrs # {}
    /\ \E rnd \in ValidIDs, x \in TransArgs :
         LET r == RegisterTransientResourceRandom(St, NewAddr, rnd, x.type, x.dir, x.name)
         IN /\ Commit(r.S)
            /\ Record(NoOp)

DoRegisterTransientResource ==
    /\ Running /\ FreeAddrs # {}
    /\ \E id \in IDs, x \in TransArgs :
         LET r == RegisterTransientResource(St, NewAddr, x.type, id, x.dir, x.name)
         IN /\ Commit(r.S)
            /\ Record(NoOp)

\* RegisterTransientResource(Type, rkID, rkDir, rkFileName) with a valid id and
\* a directory of one of two transient roots
TransientRootNames == {"t", "u"}
DoRegisterTransientResourceInRoot ==
    /\ Running /\ FreeAddrs # {}
    /\ \E id \in ValidIDs, dir \in TransientRootNames :
         LET r == RegisterTransientResource(St, NewAddr, "CMDL", id, dir, "n")
         IN /\ Commit(r.S)
            /\ Record(NoOp)

\* a client calls pEntry->Load() on an entry it holds
DoEntryLoad ==
    /\ Running
    /\ \E a \in Addr, ok \in BOOLEAN, newdeps \in SUBSET LoadedAddrs :
         /\ heap[a].live
         /\ a \notin newdeps
         \* the outcome of the loader is drawn only when the loader runs
         /\ heap[a].Loaded => ok
         /\ (heap[a].Loaded \/ ~ok) => newdeps = {}
         /\ LET r == EntryLoad(St, a, ok, newdeps)
            IN /\ Commit(r.S)
               /\ Record(NoOp)

DoLoadResource ==
    /\ Running /\ FreeAddrs # {}
    /\ \E id \in IDs, rkType \in {"CMDL", "????"}, rnd \in ValidIDs, ok \in BOOLEAN,
          newdeps \in SUBSET LoadedAddrs :
         /\ NewAddr \notin newdeps
         /\ FindEntry(St, id) \notin newdeps
         \* the type and the random id are drawn only when an entry is
         \* synthesized, the outcome of the loader only when the loader runs
         /\ LET pEntry == FindEntry(St, id)
                 looked == id # InvalidID /\ id \notin DOMAIN mLoadedResources
                 synth  == looked /\ pEntry = NULL
                 runs   == looked /\ IF pEntry # NULL THEN ~heap[pEntry].Loaded
                                     ELSE TypeForCookedExtension(rkType) # eInvalidResType
            IN /\ ~synth => rkType = "CMDL"
               /\ ~(synth /\ runs) => rnd = 1
               /\ ~runs => ok
               /\ (~runs \/ ~ok) => newdeps = {}
         /\ LET r == LoadResource(St, NewAddr, id, rkType, rnd, ok, newdeps)
            IN /\ Commit(r.S)
               /\ Record([NoOp EXCEPT !.op = "LoadResource", !.id = id,
                                       !.arg = IF r.made THEN 1 ELSE 0,
                                       !.ret = r.ret, !.err = r.err])

\* the paths given to LoadResource(path): relative paths of the database
\* and absolute paths of files in directory "t"
LoadPaths ==
    { [abs |-> FALSE, dir |-> "", name |-> "n", id |-> InvalidID, ext |-> "CMDL"],
      [abs |-> FALSE, dir |-> "d", name |-> "m", id |-> InvalidID, ext |-> "TXTR"] }
    \cup [abs : {TRUE}, dir : {"t"}, name : {"n"}, id : IDs, ext : {"CMDL", "????"}]

\* CVirtualDirectory::FindChildResource of the database root: the entries
\* at the path (none without a database root)
ChildResources(rkPath) ==
    IF ~mpDatabaseRoot \/ DbDir(rkPath.dir) \notin DOMAIN dirs THEN {}
    ELSE {a \in dirs[DbDir(rkPath.dir)] : heap[a].live /\ heap[a].Name = rkPath.name}

DoLoadResourcePath ==
    /\ Running /\ FreeAddrs # {}
    /\ \E rkPath \in LoadPaths, ok \in BOOLEAN, newdeps \in SUBSET LoadedAddrs :
       \E pFound \in (IF ChildResources(rkPath) = {} THEN {NULL} ELSE ChildResources(rkPath)),
          extOk \in (IF rkPath.abs THEN {TRUE} ELSE BOOLEAN),
          fileOk \in (IF rkPath.abs THEN BOOLEAN ELSE {TRUE}) :
         /\ NewAddr \notin newdeps
         /\ pFound \notin newdeps
         /\ FindEntry(St, rkPath.id) \notin newdeps
         /\ LET r == LoadResourcePath(St, NewAddr, rkPath, pFound, extOk, fileOk, ok, newdeps)
            IN /\ Commit(r.S)
               /\ Record([NoOp EXCEPT !.op = "LoadResourcePath", !.id = rkPath.id,
                                       !.dir = rkPath.dir,
                                       !.arg = IF r.made THEN 1 ELSE 0,
                                       !.ret = r.ret, !.err = r.err])

\* LoadResource(id, type) is called, by a client or by the format loader that
\* is running; it returns at once or starts the format loader of an entry
DoLoadResourceCall ==
    /\ Running
    /\ Len(loading) < MaxNest
    /\ \E id \in IDs, rkType \in {"CMDL", "????"}, rnd \in ValidIDs :
         LET known == id = InvalidID \/ id \in DOMAIN mLoadedResources
                                     \/ FindEntry(St, id) # NULL
             r == LoadResourceCall(St, IF FreeAddrs # {} THEN NewAddr ELSE NULL,
                                   id, rkType, rnd)
         IN /\ known \/ FreeAddrs # {}
            /\ known => rnd = 1 /\ rkType = "CMDL"
            /\ Commit(r.S)
            /\ loading' = IF r.S.halted # "none" THEN << >>
                          ELSE IF r.run # NULL
                          THEN Append(loading, [a |-> r.run, synth |-> r.synth])
                          ELSE loading
            /\ UNCHANGED gc
            /\ Record([NoOp EXCEPT !.op = "LoadResourceCall", !.id = id,
                                   !.arg = IF r.run # NULL THEN r.run ELSE NULL,
                                   !.ret = r.ret, !.err = r.err])

\* The innermost format loader returns, with or without a payload
DoLoadResourceReturn ==
    /\ Running
    /\ loading # << >>
    /\ \E ok \in BOOLEAN :
         LET top == loading[Len(loading)]
             r   == LoadResourceReturn(St, top.a, top.synth, ok)
         IN /\ Commit(r.S)
            /\ loading' = IF r.S.halted # "none" THEN << >>
                          ELSE SubSeq(loading, 1, Len(loading) - 1)
            /\ UNCHANGED gc
            /\ Record([NoOp EXCEPT !.op = "LoadResourceReturn", !.id = heap[top.a].ID,
                                   !.arg = IF ok THEN top.a ELSE NULL, !.ret = r.ret])

\* The paths given to LoadResource(path) by clients and by format loaders: a
\* relative path of the database, absolute paths of files in the directories
\* "t" and "s", and one with an extension that is not known
NestedLoadPaths ==
    { [abs |-> FALSE, dir |-> "",  name |-> "n", id |-> InvalidID, ext |-> "CMDL"],
      [abs |-> TRUE,  dir |-> "t", name |-> "n", id |-> 1,         ext |-> "CMDL"],
      [abs |-> TRUE,  dir |-> "s", name |-> "n", id |-> 2,         ext |-> "CMDL"],
      [abs |-> TRUE,  dir |-> "s", name |-> "n", id |-> 1,         ext |-> "????"] }

\* TString::EnsureEndsWith('\\') on the directories given to
\* SetTransientLoadDir
EnsureEndsWithSeparator(rkDir) == IF rkDir = "u" THEN "u\\" ELSE rkDir

\* CResourceStore::SetTransientLoadDir
DoSetTransientLoadDir ==
    /\ Running
    /\ \E rkDir \in {"u", "u\\"} :
         /\ mTransientLoadDir' = EnsureEndsWithSeparator(rkDir)
         /\ Record([NoOp EXCEPT !.op = "SetTransientLoadDir", !.dir = rkDir])
    /\ UNCHANGED <<heap, mResourceEntries, mLoadedResources, ext, deps, dirs, mTransientRoots,
                   mpDatabaseRoot, mpProj, mDatabaseDirty, mCacheFileDirty, halted>>

\* The frame of loading is one of LoadResource(path): it holds the locals
\* of that call
IsPathFrame(f) == "old" \in DOMAIN f

\* LoadResource(path) is called, by a client or by the format loader that is
\* running; it returns at once or starts the format loader of an entry.  Its
\* frame holds pEntry, whether a failed load deletes it, whether the path is
\* absolute, and the value of mTransientLoadDir at the call (OldTransientDir)
DoLoadResourcePathCall ==
    /\ Running
    /\ Len(loading) < MaxNest
    /\ FreeAddrs # {}
    /\ \E rkPath \in NestedLoadPaths :
       \E pFound \in (IF ChildResources(rkPath) = {} THEN {NULL} ELSE ChildResources(rkPath)),
          extOk \in (IF rkPath.abs THEN {TRUE} ELSE BOOLEAN),
          fileOk \in (IF rkPath.abs THEN BOOLEAN ELSE {TRUE}) :
         LET r == LoadResourcePathCall(St, NewAddr, rkPath, pFound, extOk, fileOk)
         IN /\ pFound = NULL => extOk
            /\ Commit(r.S)
            /\ loading' = IF r.S.halted # "none" THEN << >>
                          ELSE IF r.run # NULL
                          THEN Append(loading, [a |-> r.run, synth |-> r.del,
                                                abs |-> rkPath.abs,
                                                old |-> mTransientLoadDir])
                          ELSE loading
            /\ UNCHANGED gc
            /\ Record([NoOp EXCEPT !.op = "LoadResourcePathCall", !.id = rkPath.id,
                                   !.dir = rkPath.dir,
                                   !.arg = IF r.run # NULL THEN r.run ELSE NULL,
                                   !.ret = r.ret, !.err = r.err])

\* The format loader of the innermost call, one of LoadResource(path),
\* returns, with or without a payload
DoLoadResourcePathReturn ==
    /\ Running
    /\ loading # << >>
    /\ IsPathFrame(loading[Len(loading)])
    /\ \E ok \in BOOLEAN :
         LET top == loading[Len(loading)]
             r   == LoadResourcePathReturn(St, top.a, top.synth, top.abs, top.old, ok)
         IN /\ Commit(r.S)
            /\ loading' = IF r.S.halted # "none" THEN << >>
                          ELSE SubSeq(loading, 1, Len(loading) - 1)
            /\ UNCHANGED gc
            /\ Record([NoOp EXCEPT !.op = "LoadResourcePathReturn", !.id = heap[top.a].ID,
                                   !.dir = heap[top.a].Dir.n,
                                   !.arg = IF ok THEN top.a ELSE NULL, !.ret = r.ret])

\* a client takes a TResPtr to a loaded payload
DoAddRef ==
    /\ Running
    /\ \E a \in LoadedAddrs :
         /\ ext[a] < MaxRefs
         /\ ext' = [ext EXCEPT ![a] = @ + 1]
         /\ Record(NoOp)
    /\ UNCHANGED <<heap, mResourceEntries, mLoadedResources, deps, dirs, mTransientRoots,
                   mpDatabaseRoot, mpProj, mTransientLoadDir, mDatabaseDirty, mCacheFileDirty,
                   halted>>

\* a client drops a TResPtr
DoRelease ==
    /\ Running
    /\ \E a \in Addr :
         /\ ext[a] > 0
         /\ ext' = [ext EXCEPT ![a] = @ - 1]
         /\ Record(NoOp)
    /\ UNCHANGED <<heap, mResourceEntries, mLoadedResources, deps, dirs, mTransientRoots,
                   mpDatabaseRoot, mpProj, mTransientLoadDir, mDatabaseDirty, mCacheFileDirty,
                   halted>>

\* CResourceStore::DeleteResourceEntry
DoDeleteResourceEntry ==
    /\ Running
    /\ \E a \in Addr :
         /\ heap[a].live
         /\ LET r == DeleteResourceEntry(St, a)
            IN /\ Commit(r.S)
               /\ Record([NoOp EXCEPT !.op = "DeleteResourceEntry", !.arg = a,
                                       !.ret = IF r.ret THEN 1 ELSE 0])

\* CResourceStore::DestroyUnreferencedResources
DoDestroyUnreferencedResources ==
    /\ Running
    /\ Commit(DestroyUnreferencedResources(St))
    /\ Record([NoOp EXCEPT !.op = "DestroyUnreferencedResources",
                            !.ret = GCLoop(St, 0).passes])

\* The payload of a loaded entry is given a TResPtr to the payload of a loaded
\* entry (to another payload or to itself), so payloads can refer to each
\* other in a cycle
DoSetReference ==
    /\ Running
    /\ \E a \in LoadedAddrs, b \in LoadedAddrs :
         /\ b \notin deps[a]
         /\ deps' = [deps EXCEPT ![a] = @ \cup {b}]
         /\ Record(NoOp)
    /\ UNCHANGED <<heap, mResourceEntries, mLoadedResources, ext, dirs, mTransientRoots,
                   mpDatabaseRoot, mpProj, mTransientLoadDir, mDatabaseDirty, mCacheFileDirty,
                   halted>>

\* DestroyUnreferencedResources, one iteration of its do-while loop at a
\* time: the first is the call; the one that deletes nothing (or stops the
\* process) leaves the loop, sweeps the transient roots and returns
DoGCScan ==
    /\ Running
    /\ LET first  == gc.pc = "idle"
           r      == GCPass(St, SortedSeq(DOMAIN mLoadedResources), 0)
           done   == r.S.halted # "none" \/ r.n = 0
           passes == (IF first THEN 0 ELSE gc.passes) + 1
           start  == IF first THEN Cardinality(DOMAIN mLoadedResources) ELSE gc.start
       IN /\ Commit(IF done /\ r.S.halted = "none" THEN SweepTransientRoots(r.S, 1) ELSE r.S)
          /\ gc' = IF done THEN NoGC ELSE [pc |-> "scan", start |-> start, passes |-> passes]
          /\ Record([NoOp EXCEPT !.op = IF done THEN "DestroyUnreferencedResources"
                                        ELSE "GCScan",
                                 !.arg = start, !.ret = passes])
    /\ UNCHANGED loading

\* CResourceStore::CloseProject
DoCloseProject ==
    /\ Running
    /\ Commit(CloseProject(St))
    /\ Record([NoOp EXCEPT !.op = "CloseProject",
                            !.arg = Cardinality(DOMAIN mLoadedResources),
                            !.ret = Cardinality({id \in DOMAIN mResourceEntries :
                                        ~heap[mResourceEntries[id]].Transient})])

\* the steps that leave the files and the archive alone
StoreOnly == UNCHANGED <<persistVars, arcVars, loadVars>>

\* The step is a RegisterResource call with a directory and a name that are
\* valid and hold no path, made while an entry can be allocated
PlainRegistration ==
    /\ FreeAddrs # {}
    /\ IsValidDirectoryPath(lastOp'.dir)
    /\ lastOp'.name \in {"n", "m"}

Next ==
    \/ DoRegisterResource /\ PlainRegistration /\ StoreOnly
    \/ DoRegisterTransientResourceRandom /\ StoreOnly
    \/ DoRegisterTransientResource /\ StoreOnly
    \/ DoEntryLoad /\ StoreOnly
    \/ DoLoadResource /\ StoreOnly
    \/ DoAddRef /\ StoreOnly
    \/ DoRelease /\ StoreOnly
    \/ DoDeleteResourceEntry /\ StoreOnly
    \/ DoDestroyUnreferencedResources /\ StoreOnly
    \/ DoCloseProject /\ StoreOnly

Spec == Init /\ [][Next]_vars

\* CResourceStore::SaveResourceDatabase
DoSaveResourceDatabase ==
    /\ Running
    /\ \E saved \in BOOLEAN :
         LET r == SaveResourceDatabase(St, dbFile, saved)
         IN /\ Commit(r.S)
            /\ dbFile' = IF r.S.halted = "none" THEN r.file ELSE <<>>
            /\ Record([NoOp EXCEPT !.op = "SaveResourceDatabase",
                                   !.ret = IF r.ret THEN 1 ELSE 0, !.err = ~r.ret])
    /\ UNCHANGED <<cacheDisk, cacheFile, cachePc, cachePos, iRes, cacheFrom>>

\* the cache files LoadCacheFile is given
CachePayloads == UNION {[1..n -> {1}] : n \in 0..MaxPayload}
CacheRecords == [id : IDs, payload : CachePayloads]
CacheFiles ==
    {NoFile, [valid |-> TRUE, magic |-> "BAD!", recs |-> <<>>]}
    \cup {[valid |-> TRUE, magic |-> "CACH", recs |-> r] :
             r \in UNION {[1..n -> CacheRecords] : n \in 0..MaxRecs}}

\* CResourceStore::LoadCacheFile, up to the record loop
DoLoadCacheFile ==
    /\ Running
    /\ \E f \in CacheFiles :
         /\ IF ~f.valid \/ f.magic # "CACH"
            THEN /\ cacheFile' = NoFile
                 /\ cachePc' = "idle"
                 /\ cachePos' = 0
                 /\ Record([NoOp EXCEPT !.op = "LoadCacheFile", !.ret = 0, !.err = TRUE])
            ELSE /\ cacheFile' = f
                 /\ cachePc' = "loop"
                 /\ cachePos' = 1
                 /\ Record([NoOp EXCEPT !.op = "LoadCacheFile:loop"])
    /\ iRes' = 0
    /\ UNCHANGED <<heap, mResourceEntries, mLoadedResources, ext, deps, dirs, mTransientRoots,
                   mpDatabaseRoot, mpProj, mTransientLoadDir, mDatabaseDirty, mCacheFileDirty,
                   halted, dbFile, cacheDisk, cacheFrom>>

\* one iteration of the record loop of LoadCacheFile
DoLoadCacheRecord ==
    /\ halted = "none" /\ cachePc = "loop"
    /\ iRes < Len(cacheFile.recs)
    /\ \E n \in 0..MaxConsume :
         LET r == LoadCacheRecord(St, CacheBody(cacheFile.recs), cachePos, n)
         IN /\ cachePos' = r.pos
            /\ cacheFrom' = IF r.entry = NULL THEN cacheFrom
                            ELSE [cacheFrom EXCEPT ![r.entry] = r.from]
    /\ iRes' = iRes + 1
    /\ UNCHANGED <<storeVars, dbFile, cacheDisk, cacheFile, cachePc>>

\* LoadCacheFile returns true after the loop
DoLoadCacheFileEnd ==
    /\ halted = "none" /\ cachePc = "loop"
    /\ iRes >= Len(cacheFile.recs)
    /\ cachePc' = "idle"
    /\ cacheFile' = NoFile
    /\ cachePos' = 0
    /\ iRes' = 0
    /\ Record([NoOp EXCEPT !.op = "LoadCacheFile", !.ret = 1])
    /\ UNCHANGED <<heap, mResourceEntries, mLoadedResources, ext, deps, dirs, mTransientRoots,
                   mpDatabaseRoot, mpProj, mTransientLoadDir, mDatabaseDirty, mCacheFileDirty,
                   halted, dbFile, cacheDisk, cacheFrom>>

\* CResourceStore::SaveCacheFile
DoSaveCacheFile ==
    /\ Running
    /\ \E valid \in BOOLEAN :
         LET r == SaveCacheFile(St, cacheDisk, valid)
         IN /\ Commit(r.S)
            /\ cacheDisk' = r.file
            /\ Record([NoOp EXCEPT !.op = "SaveCacheFile",
                                   !.ret = IF r.ret THEN 1 ELSE 0, !.err = r.err])
    /\ UNCHANGED <<dbFile, cacheFile, cachePc, cachePos, iRes, cacheFrom>>

\* CResourceStore::ConditionalSaveStore
DoConditionalSaveStore ==
    /\ Running
    /\ \E saved \in BOOLEAN, valid \in BOOLEAN :
         LET r == ConditionalSaveStore(St, dbFile, cacheDisk, saved, valid)
         IN /\ Commit(r.S)
            /\ dbFile' = IF r.S.halted = "none" THEN r.dbfile ELSE <<>>
            /\ cacheDisk' = IF r.S.halted = "none" THEN r.cachefile ELSE NoFile
            /\ Record([NoOp EXCEPT !.op = "ConditionalSaveStore",
                                   !.arg = r.db, !.ret = r.cache])
    /\ UNCHANGED <<cacheFile, cachePc, cachePos, iRes, cacheFrom>>

\* An operation outside the store (a move of an entry) marks the database
\* dirty
DoSetDatabaseDirty ==
    /\ Running
    /\ ~mDatabaseDirty
    /\ mDatabaseDirty' = TRUE
    /\ Record(NoOp)
    /\ UNCHANGED <<heap, mResourceEntries, mLoadedResources, ext, deps, dirs, mTransientRoots,
                   mpDatabaseRoot, mpProj, mTransientLoadDir, mCacheFileDirty, halted>>

\* An operation outside the store (an entry flagged for recook, new cache
\* data) marks the cache file dirty
DoSetCacheDataDirty ==
    /\ Running
    /\ ~mCacheFileDirty
    /\ mCacheFileDirty' = TRUE
    /\ Record(NoOp)
    /\ UNCHANGED <<heap, mResourceEntries, mLoadedResources, ext, deps, dirs, mTransientRoots,
                   mpDatabaseRoot, mpProj, mTransientLoadDir, mDatabaseDirty, halted>>

\* A new store is constructed in place of the old one and
\* LoadResourceDatabase is called on it: the records of the database file
\* are registered and LoadCacheFile is entered on the cache file on disk
DoLoadResourceDatabase ==
    /\ Running
    /\ \E valid \in BOOLEAN :
         LET r == LoadResourceDatabase(FreshStore, dbFile, valid)
             f == cacheDisk
             loop == r.ret /\ r.S.halted = "none" /\ f.valid /\ f.magic = "CACH"
         IN /\ Commit(r.S)
            /\ cacheFile' = IF loop THEN f ELSE NoFile
            /\ cachePc' = IF loop THEN "loop" ELSE "idle"
            /\ cachePos' = IF loop THEN 1 ELSE 0
            /\ Record([NoOp EXCEPT !.op = "LoadResourceDatabase",
                                   !.arg = IF loop THEN 1 ELSE 0,
                                   !.ret = IF r.ret THEN 1 ELSE 0, !.err = r.err])
    /\ iRes' = 0
    /\ cacheFrom' = [a \in Addr |-> 0]
    /\ UNCHANGED <<dbFile, cacheDisk>>

SaveNext ==
    \/ DoRegisterResource /\ StoreOnly
    \/ DoRegisterTransientResource /\ StoreOnly
    \/ DoSaveResourceDatabase /\ UNCHANGED <<arcVars, loadVars>>

\* the store and its database file: registration and database save
SpecSave == Init /\ [][SaveNext]_vars

CacheNext ==
    \/ DoRegisterResource /\ StoreOnly
    \/ DoRegisterTransientResource /\ StoreOnly
    \/ DoLoadCacheFile /\ UNCHANGED <<arcVars, loadVars>>
    \/ DoLoadCacheRecord /\ UNCHANGED <<arcVars, loadVars>>
    \/ DoLoadCacheFileEnd /\ UNCHANGED <<arcVars, loadVars>>

\* the store and its cache file: registration and cache load
SpecCache == Init /\ [][CacheNext]_vars

DirtyNext ==
    \/ DoRegisterResource /\ StoreOnly
    \/ DoRegisterTransientResource /\ StoreOnly
    \/ DoSetDatabaseDirty /\ StoreOnly
    \/ DoSetCacheDataDirty /\ StoreOnly
    \/ DoSaveResourceDatabase /\ UNCHANGED <<arcVars, loadVars>>
    \/ DoSaveCacheFile /\ UNCHANGED <<arcVars, loadVars>>
    \/ DoConditionalSaveStore /\ UNCHANGED <<arcVars, loadVars>>

PathNext ==
    \/ DoRegisterResource /\ StoreOnly
    \/ DoRegisterTransientResource /\ StoreOnly
    \/ DoLoadResource /\ StoreOnly
    \/ DoLoadResourcePath /\ StoreOnly
    \/ DoDeleteResourceEntry /\ StoreOnly

\* the store: registration, the two LoadResource overloads, deletion
SpecPath == Init /\ [][PathNext]_vars

\* the store under every RegisterResource call: registration with each
\* argument of RegArgs, also when no entry can be allocated, transient
\* registration, loads and deletion
RegisterNext ==
    \/ DoRegisterResource /\ StoreOnly
    \/ DoRegisterTransientResource /\ StoreOnly
    \/ DoEntryLoad /\ StoreOnly
    \/ DoDeleteResourceEntry /\ StoreOnly

SpecRegister == Init /\ [][RegisterNext]_vars

\* the store with payloads that refer to each other, and the collection of
\* unreferenced resources one scan at a time; nothing else runs while the
\* collection does
GCNext ==
    \/ DoRegisterResource /\ PlainRegistration /\ gc.pc = "idle" /\ StoreOnly
    \/ DoRegisterTransientResource /\ gc.pc = "idle" /\ StoreOnly
    \/ DoEntryLoad /\ gc.pc = "idle" /\ StoreOnly
    \/ DoSetReference /\ gc.pc = "idle" /\ StoreOnly
    \/ DoAddRef /\ gc.pc = "idle" /\ StoreOnly
    \/ DoRelease /\ gc.pc = "idle" /\ StoreOnly
    \/ DoGCScan /\ UNCHANGED <<persistVars, arcVars>>

SpecGC == Init /\ [][GCNext]_vars

\* the same, where a collection that has been called goes on running
SpecGCFair ==
    SpecGC /\ WF_vars(gc.pc = "scan" /\ DoGCScan /\ UNCHANGED <<persistVars, arcVars>>)

\* the store with transient entries in two transient roots, the deletion of
\* entries and the collection of unreferenced resources
SweepNext ==
    \/ DoRegisterTransientResourceInRoot /\ StoreOnly
    \/ DoEntryLoad /\ StoreOnly
    \/ DoDeleteResourceEntry /\ StoreOnly
    \/ DoDestroyUnreferencedResources /\ StoreOnly

SpecSweep == Init /\ [][SweepNext]_vars

\* the store with loads that call LoadResource while they run; entries are
\* registered while no load is running
NestedNext ==
    \/ DoRegisterResource /\ loading = << >> /\ StoreOnly
    \/ DoLoadResourceCall /\ UNCHANGED <<persistVars, arcVars>>
    \/ DoLoadResourceReturn /\ UNCHANGED <<persistVars, arcVars>>

SpecNested == Init /\ [][NestedNext]_vars

\* the store with loads by path and by id that call LoadResource while they
\* run, MaxPathNest deep; an entry is registered and the transient load
\* directory is set while no load is running
TransientDirNext ==
    \/ DoRegisterResource /\ PlainRegistration /\ lastOp'.name = "n" /\ lastOp'.id = 2
          /\ loading = << >> /\ StoreOnly
    \/ DoSetTransientLoadDir /\ loading = << >> /\ StoreOnly
    \/ DoLoadResourcePathCall /\ Len(loading) < MaxPathNest /\ UNCHANGED <<persistVars, arcVars>>
    \/ DoLoadResourcePathReturn /\ UNCHANGED <<persistVars, arcVars>>
    \/ DoLoadResourceCall /\ Len(loading) < MaxPathNest /\ lastOp'.id = 1
          /\ UNCHANGED <<persistVars, arcVars>>
    \/ loading # << >> /\ ~IsPathFrame(loading[Len(loading)])
          /\ DoLoadResourceReturn /\ UNCHANGED <<persistVars, arcVars>>

SpecTransientDir == Init /\ [][TransientDirNext]_vars

\* the store and its two files: registration, the dirty flags, the saves
SpecDirty == Init /\ [][DirtyNext]_vars

LoadNext ==
    \/ DoRegisterResource /\ StoreOnly
    \/ DoRegisterTransientResource /\ StoreOnly
    \/ DoSaveResourceDatabase /\ UNCHANGED <<arcVars, loadVars>>
    \/ DoLoadResourceDatabase /\ UNCHANGED <<arcVars, loadVars>>

\* the store and its database file: registration, save of the database, and
\* load into a new store (no cache file has been saved)
SpecLoad == Init /\ [][LoadNext]_vars

\* the archive engine: a graph is written, then read back
SpecArc == Init /\ [][ArcNext]_vars

\* The archive engine on versioned files: the pointer overloads, and a client
\* that hints a member object SH_Attribute, in debug and in release builds
FileNext ==
    \/ DoOpenFileWriter /\ ArcOnly
    \/ DoOpenFileReader /\ ArcOnly
    \/ DoClose /\ ArcOnly
    \/ DoSerialParameter /\ ArcOnly
    \/ DoSerializePrimitive /\ ArcOnly
    \/ DoParamEnd /\ ArcOnly
    \/ DoPopParameter /\ ArcOnly
    \/ DoSerialize /\ ArcOnly
    \/ DoVectorItems /\ ArcOnly
    \/ DoPrimitivePointer /\ ArcOnly
    \/ DoMemberPointer /\ ArcOnly
    \/ DoPointer /\ ArcOnly
    \/ DoPointee /\ ArcOnly

SpecFile == Init /\ [][FileNext]_vars

\* The archive engine on containers: a container is written, then read into
\* a container that is empty or holds elements
ContainerNext ==
    \/ DoOpenContainerWriter /\ ArcOnly
    \/ DoOpenContainerReader /\ ArcOnly
    \/ DoClose /\ ArcOnly
    \/ DoSerialParameter /\ ArcOnly
    \/ DoSerializePrimitive /\ ArcOnly
    \/ DoParamEnd /\ ArcOnly
    \/ DoPopParameter /\ ArcOnly
    \/ DoSerialize /\ ArcOnly
    \/ DoVectorItems /\ ArcOnly
    \/ DoMapItems /\ ArcOnly
    \/ DoMapItemBegin /\ ArcOnly
    \/ DoMapItemEnd /\ ArcOnly

SpecContainer == Init /\ [][ContainerNext]_vars

\* An archive as its subclass constructed it (reader or writer, with or
\* without AF_NoSkipping) and a parameter a client is about to pass to <<:
\* any hints, a type with or without default values, any default, any value
GateHints == SUBSET {SH_Optional, SH_NeverSave, SH_AlwaysSave, SH_Attribute, SH_IgnoreName}
GateInit ==
    /\ arcMode = "idle"
    /\ mArchiveFlags \in {{m} \cup n : m \in {AF_Reader, AF_Writer},
                                       n \in {{}, {AF_NoSkipping}}}
    /\ debugBuild = TRUE
    /\ arcRoot \in {"u32", "SItem"}
    /\ arcSrc = << >>
    /\ arcObj \in IF arcRoot = "u32" THEN PrimVals ELSE SItemVals
    /\ arcTmp = << >>
    /\ mParmStack = << >>
    /\ arcNodes = << >>
    /\ arcScope = RootScope
    /\ arcAgenda = << >>
    /\ \E hints \in GateHints, def \in PrimVals \cup {NoDefault} :
          arcLast = [op |-> "none", d |-> SerialParameter("f", arcRoot, hints, def),
                     ptr |-> ObjPtr(<< >>), how |-> ""]

\* IArchive::ShouldSerializeParameter called on the parameter
DoShouldSerializeParameter ==
    /\ arcMode = "idle" /\ arcLast.op = "none" /\ arcLast.d.pkName = "f"
    /\ arcLast' = [arcLast EXCEPT
                      !.op = "should",
                      !.how = IF ShouldSerializeParameter(mArchiveFlags, arcLast.d, arcObj)
                              THEN "yes" ELSE "no"]
    /\ UNCHANGED <<arcMode, mArchiveFlags, debugBuild, arcRoot, arcSrc, arcObj, arcTmp, mParmStack,
                   arcNodes, arcScope, arcAgenda>>

GateNext == DoShouldSerializeParameter /\ ArcOnly

\* the gate of operator<< on its own, over all its inputs
GateStart == StoreInit /\ PersistInit /\ GateInit /\ LoadInit

SpecGate == GateStart /\ [][GateNext]_vars

\* The archive engine with a client that queries the parameter stack
FindNext ==
    \/ DoOpenWriter /\ ArcOnly
    \/ DoOpenReader /\ ArcOnly
    \/ DoClose /\ ArcOnly
    \/ DoSerialParameter /\ ArcOnly
    \/ DoSerializePrimitive /\ ArcOnly
    \/ DoParamEnd /\ ArcOnly
    \/ DoPopParameter /\ ArcOnly
    \/ DoSerialize /\ ArcOnly
    \/ DoVectorItems /\ ArcOnly
    \/ DoMapItems /\ ArcOnly
    \/ DoMapItemBegin /\ ArcOnly
    \/ DoMapItemEnd /\ ArcOnly
    \/ DoPointer /\ ArcOnly
    \/ DoPointee /\ ArcOnly
    \/ DoFindParentObject /\ ArcOnly

SpecFind == Init /\ [][FindNext]_vars

\* ------------------------------------------------------------ properties

\* C1: every id in the loaded-map is a key of the entries-map, both maps hold
\* the same entry for it, and that entry is loaded.
C1_LoadedIsRegisteredAndLoaded ==
    \A id \in DOMAIN mLoadedResources :
        /\ id \in DOMAIN mResourceEntries
        /\ mResourceEntries[id] = mLoadedResources[id]
        /\ heap[mLoadedResources[id]].Loaded

\* C2: RegisterResource with an id that the entries-map already maps to a
\* non-transient entry leaves the entries-map and the entry unchanged, logs an
\* error and returns the existing entry.
C2_DuplicateRegisterLeavesStore ==
    [][ ( /\ lastOp'.op = "RegisterResource"
          /\ halted' = "none"
          /\ lastOp'.id \in DOMAIN mResourceEntries
          /\ ~heap[mResourceEntries[lastOp'.id]].Transient )
        => ( /\ mResourceEntries' = mResourceEntries
             /\ heap' = heap
             /\ lastOp'.err
             /\ lastOp'.ret = mResourceEntries[lastOp'.id] ) ]_vars

\* The payloads a DestroyUnreferencedResources call can unload: the least set
\* U of entries of the loaded-map without external references whose every
\* referrer is in U.
RECURSIVE Unloadable(_, _)
Unloadable(S, U) ==
    LET inMap == {S.loaded[id] : id \in DOMAIN S.loaded}
        V == {a \in inMap : /\ S.ext[a] = 0
                            /\ \A b \in Addr : a \in S.deps[b] => b \in U}
    IN IF V = U THEN U ELSE Unloadable(S, V)

GCReturned == lastOp'.op = "DestroyUnreferencedResources" /\ halted' = "none"

\* C3: when DestroyUnreferencedResources returns, every entry still in the
\* loaded-map has a referenced payload, and every payload whose referrers were
\* all unloaded by the call (a chain B -> A with B unreferenced) is unloaded too.
C3_GCFixedPoint ==
    [][ GCReturned
        => ( /\ \A id \in DOMAIN mLoadedResources' :
                    IsReferenced(St', mLoadedResources'[id])
             /\ \A id \in DOMAIN mLoadedResources :
                    mLoadedResources[id] \in Unloadable(St, {})
                      => id \notin DOMAIN mLoadedResources' ) ]_vars

\* C3 witness: a call that needed two deleting scans (and a third, empty one)
C3_Witness ==
    /\ lastOp.op = "DestroyUnreferencedResources"
    /\ lastOp.ret >= 3
    /\ halted = "none"
    /\ mLoadedResources = <<>>

\* C4: a referenced payload is never unloaded: DestroyUnreferencedResources
\* keeps every entry whose payload has a referrer the call does not unload, and
\* DeleteResourceEntry of a loaded, referenced entry returns false and changes
\* nothing.
C4_ReferencedNeverUnloaded ==
    [][ /\ GCReturned
          => \A id \in DOMAIN mLoadedResources :
                LET a == mLoadedResources[id]
                IN a \notin Unloadable(St, {})
                     => /\ id \in DOMAIN mLoadedResources'
                        /\ mLoadedResources'[id] = a
                        /\ heap'[a] = heap[a]
        /\ ( /\ lastOp'.op = "DeleteResourceEntry"
             /\ heap[lastOp'.arg].Loaded
             /\ IsReferenced(St, lastOp'.arg) )
          => /\ lastOp'.ret = 0
             /\ halted' = "none"
             /\ mResourceEntries' = mResourceEntries
             /\ mLoadedResources' = mLoadedResources
             /\ dirs' = dirs
             /\ heap' = heap ]_vars

\* C4 witness: DeleteResourceEntry refused for a loaded entry
C4_Witness ==
    /\ lastOp.op = "DeleteResourceEntry"
    /\ lastOp.ret = 0
    /\ heap[lastOp.arg].Loaded
    /\ ext[lastOp.arg] > 0

\* C5: a transient entry whose payload the store unloads is removed from the
\* entries-map (FindEntry finds nothing for its id), from its directory and
\* from memory.
C5_UnloadedTransientIsRemoved ==
    [][ ( /\ lastOp'.op \in {"DestroyUnreferencedResources", "DeleteResourceEntry"}
          /\ halted' = "none" )
        => \A id \in DOMAIN mLoadedResources :
              LET a == mLoadedResources[id]
              IN ( /\ heap[a].Transient
                   /\ heap[a].Loaded
                   /\ id \notin DOMAIN mLoadedResources' )
                 => /\ heap'[a] = FreeEntry
                    /\ FindEntry(St', id) = NULL
                    /\ \A x \in DOMAIN mResourceEntries' : mResourceEntries'[x] # a
                    /\ \A d \in DOMAIN dirs' : a \notin dirs'[d] ]_vars

\* C5 witness: a collection unloaded a payload and emptied the entries-map,
\* so the entry it unloaded was a transient one and was removed
C5_Witness ==
    /\ lastOp.op = "DestroyUnreferencedResources" /\ lastOp.ret >= 2
    /\ halted = "none"
    /\ mResourceEntries = <<>> /\ mLoadedResources = <<>>
    /\ \A a \in Addr : heap[a] = FreeEntry

\* C6: a successful SaveResourceDatabase writes exactly one record for every
\* non-transient entry of the entries-map, with that entry's id, type,
\* directory path and name, and no record for a transient entry.
C6_SavedRecordsAreTheNonTransientEntries ==
    ( lastOp.op = "SaveResourceDatabase" /\ lastOp.ret = 1 /\ halted = "none" )
    => /\ \A id \in DOMAIN mResourceEntries :
            LET e == heap[mResourceEntries[id]]
                written == {i \in 1..Len(dbFile) : dbFile[i].ID = id}
            IN IF e.Transient THEN written = {}
               ELSE /\ Cardinality(written) = 1
                    /\ \A i \in written :
                          dbFile[i] = [ID |-> id, Type |-> e.Type,
                                       Directory |-> e.Dir.n, Name |-> e.Name]
       /\ \A i \in 1..Len(dbFile) : dbFile[i].ID \in DOMAIN mResourceEntries

\* C6 witness: a save of a store that holds a transient and a permanent entry
C6_Witness ==
    /\ lastOp.op = "SaveResourceDatabase" /\ lastOp.ret = 1
    /\ \E id \in DOMAIN mResourceEntries : heap[mResourceEntries[id]].Transient
    /\ \E id \in DOMAIN mResourceEntries : ~heap[mResourceEntries[id]].Transient
    /\ Len(dbFile) = 1

\* offset of record i of a cache file, and of its payload, from the framing
RECURSIVE RecordStart(_, _)
RecordStart(recs, i) ==
    IF i <= 1 THEN 1 ELSE RecordStart(recs, i - 1) + 2 + Len(recs[i - 1].payload)
PayloadStart(recs, i) == RecordStart(recs, i) + 2

\* C7: LoadCacheFile starts every record at the offset the framing gives it
\* (end of the previous length field + declared length), whatever the record's
\* id and however much of the payload was read; every record of a registered
\* non-transient entry is read from its own payload; the load returns true.
C7_CursorFollowsFraming ==
    [][ /\ cachePc' = "loop"
          => /\ cachePos' = RecordStart(cacheFile'.recs, iRes' + 1)
             /\ \A j \in 1..iRes' :
                   LET id == cacheFile'.recs[j].id
                       a == FindEntry(St', id)
                   IN ( /\ a # NULL
                        /\ ~heap'[a].Transient
                        /\ \A k \in (j + 1)..iRes' : cacheFile'.recs[k].id # id )
                      => cacheFrom'[a] = PayloadStart(cacheFile'.recs, j)
        /\ (cachePc = "loop" /\ cachePc' = "idle")
          => /\ iRes = Len(cacheFile.recs)
             /\ lastOp'.op = "LoadCacheFile" /\ lastOp'.ret = 1 /\ ~lastOp'.err ]_vars

\* C7 witness: a record of an unregistered id, with a payload, was skipped and
\* the next record was applied to its entry
C7_Witness ==
    /\ cachePc = "loop" /\ iRes = 2
    /\ cacheFile.recs[1].id \notin DOMAIN mResourceEntries
    /\ Len(cacheFile.recs[1].payload) > 0
    /\ FindEntry(St, cacheFile.recs[2].id) # NULL
    /\ cacheFrom[FindEntry(St, cacheFile.recs[2].id)] = PayloadStart(cacheFile.recs, 2)

\* The declaration of field n of class T
FieldNamed(T, n) ==
    Fields(T)[CHOOSE i \in 1..Len(Fields(T)) : Fields(T)[i].pkName = n]

\* The graph a reader is expected to produce from the document a writer with
\* the given flags made of graph v of type T: v, with every field the writer
\* never saves holding what a reader leaves in a field without an entry
RECURSIVE ExpectedRead(_, _, _)
ExpectedRead(T, v, flags) ==
    IF T \in PrimTypes \/ T = "map<u32,u32>" THEN v
    ELSE IF T = "vector<SItem>"
    THEN [i \in DOMAIN v |-> ExpectedRead("SItem", v[i], flags)]
    ELSE IF T = "IBase*"
    THEN IF v = NullPtr THEN v ELSE ExpectedRead(ClassOfType(v.Type), v, flags)
    ELSE [n \in DOMAIN v |->
            IF n = "Type" THEN v[n]
            ELSE LET d == FieldNamed(T, n)
                 IN IF SH_NeverSave \in d.HintFlags /\ AF_NoSkipping \notin flags
                    THEN IF d.pDefaultValue # NoDefault THEN d.pDefaultValue
                         ELSE Construct(d.type)
                    ELSE ExpectedRead(d.type, v[n], flags)]

\* C8 as stated: reading back what was written gives the written graph
C8_RoundTrip ==
    /\ arcMode # "assert"
    /\ arcMode = "done" => arcObj = arcSrc

\* C8, amended: reading back what was written gives the written graph, except
\* that a field hinted SH_NeverSave, written by an archive without
\* AF_NoSkipping, comes back as its declared default; no assertion fires.
C8_RoundTripExceptNeverSave ==
    /\ arcMode # "assert"
    /\ arcMode = "done" => arcObj = ExpectedRead(arcRoot, arcSrc, mArchiveFlags)

\* C8 witness: a graph with a nested object, a sequence of two objects, a
\* map, and a polymorphic object has been written and read back
C8_Witness ==
    /\ arcMode = "done"
    /\ AF_NoSkipping \notin mArchiveFlags
    /\ arcRoot = "SOuter"
    /\ Len(arcSrc.v) >= 2
    /\ DOMAIN arcSrc.m # {}
    /\ arcSrc.ptr # NullPtr
    /\ arcObj = arcSrc

\* The field is one a writer omits: SH_Optional without SH_AlwaysSave, no
\* AF_NoSkipping, and the value v equal to the declared default
OmissionCase(d, v) ==
    /\ SH_Optional \in d.HintFlags
    /\ SH_AlwaysSave \notin d.HintFlags
    /\ AF_NoSkipping \notin mArchiveFlags
    /\ d.pDefaultValue # NoDefault
    /\ v = d.pDefaultValue

\* The fields of graph v of type T that are omission cases, with their defaults
RECURSIVE OmittedFields(_, _, _)
OmittedFields(T, v, path) ==
    IF T \in PrimTypes \/ T = "map<u32,u32>" THEN {}
    ELSE IF T = "vector<SItem>"
    THEN UNION {OmittedFields("SItem", v[i], Append(path, Step("Item", i))) : i \in DOMAIN v}
    ELSE IF T = "IBase*"
    THEN IF v = NullPtr THEN {} ELSE OmittedFields(ClassOfType(v.Type), v, path)
    ELSE UNION { LET d == Fields(T)[i]
                     p == Append(path, Step(d.pkName, 0))
                 IN IF OmissionCase(d, v[d.pkName])
                    THEN {[p |-> p, def |-> d.pDefaultValue]}
                    ELSE OmittedFields(d.type, v[d.pkName], p)
                 : i \in 1..Len(Fields(T)) }

\* C9: for a field whose value equals its declared default, hinted SH_Optional
\* without SH_AlwaysSave, in an archive without AF_NoSkipping: the writer does
\* not call ParamBegin and adds nothing to the document; the reader of the
\* document finds no entry for it, and when it returns the field holds that
\* default.
C9_DefaultOmission ==
    [][ /\ ( /\ ArcRunning /\ Cur.op = "param" /\ IsWriter
             /\ OmissionCase(Cur.d, Deref(Cur.ptr)) )
          => /\ arcLast'.how = "skipped"
             /\ arcNodes' = arcNodes
             /\ arcScope' = arcScope
        /\ ( /\ ArcRunning /\ Cur.op = "param" /\ IsReader /\ Cur.ptr.k = "obj"
             /\ [p |-> Cur.ptr.p, def |-> Cur.d.pDefaultValue]
                   \in OmittedFields(arcRoot, arcSrc, << >>) )
          => /\ arcLast'.how = "declined"
             /\ Get(arcObj', Cur.ptr.p) = Cur.d.pDefaultValue
        /\ arcMode' = "done"
          => \A q \in OmittedFields(arcRoot, arcSrc, << >>) :
                Get(arcObj', q.p) = q.def ]_vars

\* C9 witness: a graph whose optional field o held its default was written
\* without an entry for o and read back into a new object
C9_Witness ==
    /\ arcMode = "done"
    /\ AF_NoSkipping \notin mArchiveFlags
    /\ arcRoot = "SPrims"
    /\ arcSrc.o = 0
    /\ arcObj.o = 0
    /\ \A i \in 1..Len(arcNodes) : arcNodes[i].pkName # "o"

\* C10: every operator<< pushes the frame of its parameter and, whether the
\* parameter was serialized, skipped or declined, pops that same frame (type
\* identity and data pointer) leaving the stack as it found it; at every
\* statement of the traversal the depth of the stack is the number of
\* operator<< calls the statement runs inside.
C10_ParameterStackIsLIFO ==
    [][ /\ (ArcRunning /\ Cur.op = "param")
          => /\ Len(mParmStack') = Len(mParmStack) + 1
             /\ mParmStack'[Len(mParmStack')].TypeID = Cur.d.type
             /\ mParmStack'[Len(mParmStack')].pDataPointer = Cur.ptr
        /\ (ArcRunning /\ Cur.op = "pop")
          => /\ PopParameterChecks(mParmStack, Cur.d, Cur.ptr)
             /\ mParmStack' = SubSeq(mParmStack, 1, Cur.n)
             /\ Len(mParmStack) = Cur.n + 1
        /\ ArcRunning' => Len(mParmStack') = Head(arcAgenda').depth
        /\ (arcMode' \in {"w", "r"} /\ arcAgenda' = << >>) => mParmStack' = << >> ]_vars

\* C10 witness: the frame of a field three levels deep, which the backend
\* declined, has been popped
C10_Witness ==
    /\ arcLast.op = "pop"
    /\ arcLast.how = "declined"
    /\ arcLast.d.pkName = "b"
    /\ Len(mParmStack) = 2

\* The frames below the top frame whose type identity is T
FramesBelowTop(T) == {i \in 1..(Len(mParmStack) - 1) : mParmStack[i].TypeID = T}

\* C11: FindParentObject<T>() never returns the top frame, the field being
\* serialized, even when that frame has type T; it returns the data pointer of
\* the nearest frame below the top whose type identity is T, and none when
\* there is no such frame (as when the stack holds no frame or one frame).
C11_FindParentObjectSkipsTop ==
    arcLast.op = "find"
      => LET T == arcLast.d.type
         IN /\ Len(mParmStack) > 0
                 => arcLast.ptr # mParmStack[Len(mParmStack)].pDataPointer
            /\ FramesBelowTop(T) = {} => arcLast.ptr = NoPtr
            /\ \A i \in FramesBelowTop(T) :
                  (\A j \in FramesBelowTop(T) : j <= i)
                     => arcLast.ptr = mParmStack[i].pDataPointer

\* C11 witness: the query for the type of the top frame, with a frame of the
\* same type below it, returned that lower frame
C11_Witness ==
    /\ arcLast.op = "find"
    /\ Len(mParmStack) >= 3
    /\ mParmStack[Len(mParmStack)].TypeID = arcLast.d.type
    /\ FramesBelowTop(arcLast.d.type) # {}
    /\ arcLast.ptr = mParmStack[Len(mParmStack) - 1].pDataPointer

\* C11 witness of the empty case: the query on a stack of one frame, for the
\* type of that frame, returned none
C11_WitnessNone ==
    /\ arcLast.op = "find"
    /\ Len(mParmStack) = 1
    /\ mParmStack[1].TypeID = arcLast.d.type
    /\ arcLast.ptr = NoPtr

\* The non-transient entries of the entries-map of store S: id, resource type,
\* directory path and name
DatabaseEntries(S) ==
    {[ID |-> id, Type |-> S.heap[S.ent[id]].Type, Directory |-> S.heap[S.ent[id]].Dir,
      Name |-> S.heap[S.ent[id]].Name] :
        id \in {x \in DOMAIN S.ent : ~S.heap[S.ent[x]].Transient}}

\* The database has just been saved by this store and is loaded, readable,
\* into a new store
SavedThenLoaded ==
    /\ lastOp.op = "SaveResourceDatabase" /\ lastOp.ret = 1
    /\ lastOp'.op = "LoadResourceDatabase" /\ ~lastOp'.err

\* C13: the database a store saved, loaded into a new store, gives that store
\* non-transient entries with the same ids and, for each id, the same type,
\* directory path and name as the non-transient entries of the saving store.
C13_DatabaseRoundTrip ==
    [][ SavedThenLoaded
          => /\ halted' = "none"
             /\ DatabaseEntries(St') = DatabaseEntries(St) ]_vars

\* C13, for stores whose entries were all created at a valid path: the same
\* round trip
C13_DatabaseRoundTripOfValidPaths ==
    [][ ( /\ SavedThenLoaded
          /\ \A r \in DatabaseEntries(St) : IsValidResourcePath(r.Directory.n, r.Name) )
          => /\ halted' = "none"
             /\ DatabaseEntries(St') = DatabaseEntries(St) ]_vars

\* C13 witness: a store with two non-transient entries was saved and loaded
C13_Witness ==
    /\ lastOp.op = "LoadResourceDatabase" /\ ~lastOp.err
    /\ Len(dbFile) = 2
    /\ Cardinality(DatabaseEntries(St)) = 2

\* C14: ShouldSerializeParameter returns true when AF_NoSkipping is set, even
\* for SH_NeverSave; otherwise in a writer false for SH_NeverSave, false for
\* SH_Optional without SH_AlwaysSave when the value equals the default, and
\* true in every other case; in a reader always true.
C14_ShouldSerializeTruthTable ==
    arcLast.op = "should"
      => LET hints == arcLast.d.HintFlags
             equalsDefault == /\ arcLast.d.pDefaultValue # NoDefault
                              /\ arcObj = arcLast.d.pDefaultValue
             expected ==
                IF AF_NoSkipping \in mArchiveFlags THEN TRUE
                ELSE IF AF_Reader \in mArchiveFlags THEN TRUE
                ELSE IF SH_NeverSave \in hints THEN FALSE
                ELSE IF SH_Optional \in hints /\ SH_AlwaysSave \notin hints /\ equalsDefault
                     THEN FALSE
                     ELSE TRUE
         IN arcLast.how = (IF expected THEN "yes" ELSE "no")

\* C14 witness: a writer with AF_NoSkipping was asked about an SH_NeverSave
\* parameter holding its default and answered true
C14_Witness ==
    /\ arcLast.op = "should"
    /\ mArchiveFlags = {AF_Writer, AF_NoSkipping}
    /\ arcLast.d.HintFlags = {SH_NeverSave, SH_Optional}
    /\ arcLast.d.pDefaultValue = arcObj
    /\ arcLast.how = "yes"

\* The step is a save of the database that ran to its end, and its outcome
DbSaveSucceeded ==
    \/ lastOp'.op = "SaveResourceDatabase" /\ lastOp'.ret = 1
    \/ lastOp'.op = "ConditionalSaveStore" /\ lastOp'.arg = 1
DbSaveFailed ==
    \/ lastOp'.op = "SaveResourceDatabase" /\ lastOp'.ret = 0
    \/ lastOp'.op = "ConditionalSaveStore" /\ lastOp'.arg = 2
CacheSaveSucceeded ==
    \/ lastOp'.op = "SaveCacheFile" /\ lastOp'.ret = 1
    \/ lastOp'.op = "ConditionalSaveStore" /\ lastOp'.ret = 1
CacheSaveFailed ==
    \/ lastOp'.op = "SaveCacheFile" /\ lastOp'.ret = 0
    \/ lastOp'.op = "ConditionalSaveStore" /\ lastOp'.ret = 2

\* C15: in a running program the database flag goes from set to clear only
\* in a save of the database that succeeds, the cache-file flag only in a save
\* of the cache file that succeeds; a save that fails leaves its flag as it
\* was; a save of one file alone leaves the flag of the other as it was.
C15_FlagsClearedOnlyBySuccessfulSave ==
    [][ halted' = "none"
        => /\ (mDatabaseDirty /\ ~mDatabaseDirty') => DbSaveSucceeded
           /\ (mCacheFileDirty /\ ~mCacheFileDirty') => CacheSaveSucceeded
           /\ DbSaveFailed => mDatabaseDirty' = mDatabaseDirty
           /\ CacheSaveFailed => mCacheFileDirty' = mCacheFileDirty
           /\ lastOp'.op = "SaveResourceDatabase" => mCacheFileDirty' = mCacheFileDirty
           /\ lastOp'.op = "SaveCacheFile" => mDatabaseDirty' = mDatabaseDirty
           /\ (lastOp'.op = "ConditionalSaveStore" /\ lastOp'.arg # 1)
                => mDatabaseDirty' = mDatabaseDirty
           /\ (lastOp'.op = "ConditionalSaveStore" /\ lastOp'.ret # 1)
                => mCacheFileDirty' = mCacheFileDirty ]_vars

\* C15 witness: with both flags set, ConditionalSaveStore failed to save the
\* database and saved the cache file: only the cache-file flag is clear
C15_Witness ==
    /\ lastOp.op = "ConditionalSaveStore"
    /\ lastOp.arg = 2 /\ lastOp.ret = 1
    /\ halted = "none"
    /\ mDatabaseDirty /\ ~mCacheFileDirty
    /\ cacheDisk.valid

\* C16: a RegisterResource call that adds an entry or promotes a transient
\* entry leaves the database flag set, and ConditionalSaveStore called with
\* the flag set saves the database.
C16_RegisterMarksDatabaseDirty ==
    [][ /\ ( /\ lastOp'.op = "RegisterResource"
             /\ halted' = "none"
             /\ lastOp'.ret # NULL /\ ~lastOp'.err )
          => mDatabaseDirty'
        /\ (lastOp'.op = "ConditionalSaveStore" /\ mDatabaseDirty)
          => lastOp'.arg \in {1, 2} ]_vars

\* C16, for promotions only: a RegisterResource call that promotes a
\* transient entry leaves the database flag set
C16_PromotionMarksDatabaseDirty ==
    [][ ( /\ lastOp'.op = "RegisterResource"
          /\ halted' = "none"
          /\ lastOp'.ret # NULL /\ ~lastOp'.err
          /\ FindEntry(St, lastOp'.id) # NULL )
          => mDatabaseDirty' ]_vars

\* C17: CloseProject collects the unreferenced payloads first; when a payload
\* is still loaded after that it stops in the fatal assertion and deletes
\* nothing; when it completes, the loaded-map is empty, every payload that
\* was loaded was unloaded by the collection, and no non-transient entry is
\* left in the entries-map.
C17_CloseProjectDeletesOnlyWhenNothingLoaded ==
    [][ lastOp'.op = "CloseProject"
        => /\ (\E id \in DOMAIN mLoadedResources :
                    mLoadedResources[id] \notin Unloadable(St, {}))
                => halted' \in {"assert", "ub"}
           /\ halted' = "none"
                => /\ mLoadedResources' = << >>
                   /\ \A id \in DOMAIN mLoadedResources :
                          mLoadedResources[id] \in Unloadable(St, {})
                   /\ \A id \in DOMAIN mResourceEntries' :
                          heap'[mResourceEntries'[id]].Transient ]_vars

\* C17 witness: CloseProject completed on a store that had a loaded payload
\* and a non-transient entry
C17_Witness ==
    /\ lastOp.op = "CloseProject"
    /\ lastOp.arg >= 1 /\ lastOp.ret >= 1
    /\ halted = "none"
    /\ mLoadedResources = << >>

\* C17 witness: CloseProject stopped in the assertion
C17_WitnessAssertion ==
    /\ lastOp.op = "CloseProject"
    /\ lastOp.arg >= 1
    /\ halted = "assert"

\* the step is LoadResource(id, type) of a valid id that returned a payload
LoadResourceReturned ==
    /\ lastOp'.op = "LoadResource"
    /\ lastOp'.ret # NULL
    /\ halted' = "none"

\* C18: after LoadResource(id, type) returned a payload the loaded-map maps
\* id to it, and LoadResource of an id of the loaded-map returns the payload
\* of the map and creates no entry.
C18_LoadedResourceIsFoundAgain ==
    [][ /\ LoadResourceReturned
          => /\ lastOp'.id \in DOMAIN mLoadedResources'
             /\ mLoadedResources'[lastOp'.id] = lastOp'.ret
        /\ ( /\ lastOp'.op = "LoadResource"
             /\ lastOp'.id # InvalidID
             /\ lastOp'.id \in DOMAIN mLoadedResources )
          => /\ lastOp'.ret = mLoadedResources[lastOp'.id]
             /\ halted' = "none"
             /\ heap' = heap
             /\ mResourceEntries' = mResourceEntries
             /\ mLoadedResources' = mLoadedResources ]_vars

\* C18, for ids of the entries-map only: LoadResource(id, type) of a
\* registered id that returned a payload leaves id in the loaded-map
C18_RegisteredResourceIsFoundAgain ==
    [][ ( LoadResourceReturned /\ lastOp'.arg = 0 )
          => /\ lastOp'.id \in DOMAIN mLoadedResources'
             /\ mLoadedResources'[lastOp'.id] = lastOp'.ret ]_vars

\* C18: the state after LoadResource(id, type) made a transient entry and
\* returned its payload
C18_WitnessSynthesized ==
    /\ lastOp.op = "LoadResource"
    /\ lastOp.arg = 1 /\ lastOp.ret # NULL
    /\ halted = "none"

\* the step is a LoadResource call that constructed an entry and returned
\* none
LoadFailedAfterSynthesis ==
    /\ lastOp'.op \in {"LoadResource", "LoadResourcePath"}
    /\ lastOp'.arg = 1
    /\ lastOp'.ret = NULL
    /\ halted' = "none"

\* C19: when a LoadResource call (by id or by absolute path) constructed a
\* transient entry and the cooked load failed, the entry is deleted before
\* the call returns: it is in no map, in no directory and not in memory.
C19_FailedLoadRollsBackTransientEntry ==
    [][ LoadFailedAfterSynthesis
        => /\ heap'[NewAddr] = FreeEntry
           /\ \A id \in DOMAIN mResourceEntries' : mResourceEntries'[id] # NewAddr
           /\ \A id \in DOMAIN mLoadedResources' : mLoadedResources'[id] # NewAddr
           /\ \A d \in DOMAIN dirs' : NewAddr \notin dirs'[d]
           /\ mLoadedResources' = mLoadedResources ]_vars

\* C19 witness: LoadResource(path) of an absolute path constructed an entry
\* for a valid id, the cooked load failed, and the id is in no map
C19_Witness ==
    /\ lastOp.op = "LoadResourcePath"
    /\ lastOp.arg = 1 /\ lastOp.ret = NULL /\ ~lastOp.err
    /\ lastOp.id # InvalidID
    /\ halted = "none"
    /\ lastOp.id \notin DOMAIN mResourceEntries
    /\ mResourceEntries # << >>

\* C19 witness: the same for LoadResource(id, type)
C19_WitnessById ==
    /\ lastOp.op = "LoadResource"
    /\ lastOp.arg = 1 /\ lastOp.ret = NULL /\ ~lastOp.err
    /\ halted = "none"
    /\ mResourceEntries # << >>

\* the directory is a relative path below the database root
DirectoryIsInsideRoot(d) == d # "/abs"
\* the name holds neither '/' nor '\'
NameIsNoPath(n) == n # "a/b" /\ n # "a\\b"

\* C20: RegisterResource of an id FindEntry does not find creates an entry
\* exactly when the directory is a relative path inside the root and the name
\* holds no '/' and no '\': then the entries-map maps the id to a new
\* non-transient entry at that path; otherwise an error is logged, none is
\* returned and the entries-map is unchanged.
C20_RegisterCreatesIffPathValid ==
    [][ ( /\ lastOp'.op = "RegisterResource"
          /\ FindEntry(St, lastOp'.id) = NULL
          /\ halted' = "none" )
        => IF DirectoryIsInsideRoot(lastOp'.dir) /\ NameIsNoPath(lastOp'.name)
           THEN /\ lastOp'.ret # NULL /\ ~lastOp'.err
                /\ ~heap[lastOp'.ret].live
                /\ DOMAIN mResourceEntries' = DOMAIN mResourceEntries \cup {lastOp'.id}
                /\ mResourceEntries'[lastOp'.id] = lastOp'.ret
                /\ heap'[lastOp'.ret].ID = lastOp'.id
                /\ mpDatabaseRoot => heap'[lastOp'.ret].Dir = DbDir(lastOp'.dir)
                /\ heap'[lastOp'.ret].Name = lastOp'.name
                /\ ~heap'[lastOp'.ret].Transient
           ELSE /\ lastOp'.ret = NULL /\ lastOp'.err
                /\ mResourceEntries' = mResourceEntries
                /\ heap' = heap ]_vars

\* C20 witness: RegisterResource of an unknown id and a name with a backslash
\* was refused on a store that holds an entry
C20_Witness ==
    /\ lastOp.op = "RegisterResource"
    /\ lastOp.name = "a\\b"
    /\ lastOp.ret = NULL /\ lastOp.err
    /\ lastOp.id \notin DOMAIN mResourceEntries
    /\ mResourceEntries # << >>

\* C20 witness: RegisterResource of an unknown id and a valid path made the
\* entry
C20_WitnessCreated ==
    /\ lastOp.op = "RegisterResource"
    /\ lastOp.dir = "d" /\ lastOp.name = "m"
    /\ lastOp.ret # NULL /\ ~lastOp.err
    /\ lastOp.id \in DOMAIN mResourceEntries
    /\ mResourceEntries[lastOp.id] = lastOp.ret
    /\ heap[lastOp.ret].Name = "m"

\* the step is RegisterResource of an id that FindEntry finds as a transient
\* entry
RegisterOfTransient ==
    /\ lastOp'.op = "RegisterResource"
    /\ FindEntry(St, lastOp'.id) # NULL
    /\ heap[FindEntry(St, lastOp'.id)].Transient

\* C21: RegisterResource of an id tracked by a transient entry with another
\* type stops in the assertion; with the type of the entry it returns that
\* entry, now non-transient and with the given name, and the entries-map, the
\* set of entries in memory and the type of the entry are as before.
C21_PromotionInPlace ==
    [][ RegisterOfTransient
        => LET pEntry == FindEntry(St, lastOp'.id)
           IN IF lastOp'.type # heap[pEntry].Type
              THEN halted' = "assert"
              ELSE halted' \in {"none", "ub"}
                   /\ ( halted' = "none"
                        => /\ lastOp'.ret = pEntry /\ ~lastOp'.err
                           /\ mResourceEntries' = mResourceEntries
                           /\ \A a \in Addr : heap'[a].live = heap[a].live
                           /\ \A a \in Addr \ {pEntry} : heap'[a] = heap[a]
                           /\ heap'[pEntry].ID = heap[pEntry].ID
                           /\ heap'[pEntry].Type = heap[pEntry].Type
                           /\ heap'[pEntry].Loaded = heap[pEntry].Loaded
                           /\ heap'[pEntry].Name = lastOp'.name
                           /\ ~heap'[pEntry].Transient ) ]_vars

\* C21 witness: a promotion to a name no new entry can have, on a store with
\* two entries
C21_Witness ==
    /\ lastOp.op = "RegisterResource"
    /\ lastOp.name = "a/b"
    /\ lastOp.ret # NULL /\ ~lastOp.err
    /\ halted = "none"
    /\ heap[lastOp.ret].Name = "a/b" /\ ~heap[lastOp.ret].Transient
    /\ Cardinality(DOMAIN mResourceEntries) = 2

\* C21 witness: RegisterResource stopped in the assertion on the type
C21_WitnessAssertion ==
    /\ lastOp.op = "RegisterResource"
    /\ lastOp.type = "TXTR"
    /\ halted = "assert"

\* The overloads of operator<< for pointer fields that the model covers
PointerStrategies == {"PrimitivePointer", "MemberPointer", "Abstract"}

\* operator<< is about to run, in a writer, on a pointer field that is null
WriterGivenNullPointer ==
    /\ ArcRunning /\ Cur.op = "param" /\ IsWriter
    /\ Strategy(Cur.d.type) \in PointerStrategies
    /\ Deref(Cur.ptr) = NullPtr

\* C22: a writer given a pointer field whose pointer is null fails with an
\* assertion, whatever the pointer strategy, and adds no field scope to the
\* document.
C22_WriterAssertsOnNullPointer ==
    [][ WriterGivenNullPointer
          => /\ arcMode' = "assert"
             /\ arcNodes' = arcNodes ]_vars

\* C22, the primitive pointer overload alone: its assertion fires
C22_PrimitivePointerAsserts ==
    [][ (WriterGivenNullPointer /\ Strategy(Cur.d.type) = "PrimitivePointer")
          => /\ arcMode' = "assert"
             /\ arcNodes' = arcNodes ]_vars

\* C22 witness of the divergence: a writer has returned normally leaving an
\* empty scope for a null member pointer in the document
C22_WitnessEmptyScope ==
    /\ arcMode = "w" /\ arcAgenda = << >>
    /\ arcRoot = "SPtrs"
    /\ arcSrc.mp = NullPtr
    /\ \E i \in 1..Len(arcNodes) :
          /\ arcNodes[i].pkName = "mp"
          /\ arcNodes[i].val = NoValue
          /\ \A j \in 1..Len(arcNodes) : arcNodes[j].parent # i

\* The statements of the pointer overloads that ask PreSerializePointer
PointerOps == {"primPointer", "memberPointer", "pointer"}

\* The statements of the pending work that are the ParamEnd of the field at ptr
ParamEndsOf(agenda, ptr) ==
    {i \in 1..Len(agenda) : agenda[i].op = "end" /\ agenda[i].ptr = ptr}

\* C23: in a pointer field whose scope was entered, the pointee is serialized
\* only if PreSerializePointer accepts.  When it refuses, a reader leaves the
\* pointer null and a writer writes nothing for the pointee.  Accepted or
\* refused, what remains of operator<< is one ParamEnd, which closes the scope
\* of the field, and the pop of the frame of the field.
C23_PointerGate ==
    [][ /\ (ArcRunning /\ Cur.op \in PointerOps)
          => LET pre == PreSerializePointer(arcNodes, arcScope, mArchiveFlags, Deref(Cur.ptr))
             IN /\ ~pre.ret
                  => /\ arcAgenda' = Rest
                     /\ IsReader => Get(arcObj', Cur.ptr.p) = NullPtr
                     /\ IsWriter => /\ arcObj' = arcObj
                                    /\ Len(arcNodes') = Len(arcNodes)
                                    /\ \A i \in 1..Len(arcNodes) :
                                          arcNodes'[i].val = arcNodes[i].val
                /\ pre.ret => /\ arcAgenda' # Rest
                              /\ Len(arcAgenda') > Len(Rest)
                /\ SubSeq(arcAgenda', Len(arcAgenda') - Len(Rest) + 1, Len(arcAgenda')) = Rest
                /\ Len(Rest) >= 2
                /\ Rest[1].op = "end" /\ Rest[1].ptr = Cur.ptr
                /\ Rest[2].op = "pop" /\ Rest[2].ptr = Cur.ptr /\ Rest[2].s = "entered"
                /\ Cardinality(ParamEndsOf(arcAgenda', Cur.ptr)) = 1
        /\ (ArcRunning /\ Cur.op = "end" /\ Strategy(Cur.d.type) \in PointerStrategies)
          => /\ arcNodes[CurNode(arcScope)].pkName = Cur.d.pkName
             /\ arcScope' = SubSeq(arcScope, 1, Len(arcScope) - 1)
             /\ (IsWriter /\ Deref(Cur.ptr) = NullPtr)
                  => /\ arcNodes[CurNode(arcScope)].val = NoValue
                     /\ \A i \in 1..Len(arcNodes) : arcNodes[i].parent # CurNode(arcScope)
             /\ (IsReader /\ arcNodes[CurNode(arcScope)].null) => Deref(Cur.ptr) = NullPtr
             /\ Head(Rest).op = "pop" /\ Head(Rest).ptr = Cur.ptr
        /\ (ArcRunning /\ Cur.op = "pop" /\ Cur.s = "entered"
                       /\ Strategy(Cur.d.type) \in PointerStrategies)
          => /\ arcLast.op = "end" /\ arcLast.ptr = Cur.ptr
             /\ mParmStack[Len(mParmStack)].pDataPointer = Cur.ptr
             /\ mParmStack' = SubSeq(mParmStack, 1, Len(mParmStack) - 1) ]_vars

\* C23 witness: a reader the backend refused at the member pointer field mp
\* has closed the scope of mp and popped its frame, and mp is null
C23_Witness ==
    /\ arcMode = "r"
    /\ arcLast.op = "pop" /\ arcLast.how = "entered" /\ arcLast.d.pkName = "mp"
    /\ arcSrc.mp = NullPtr
    /\ arcObj.mp = NullPtr
    /\ Len(mParmStack) = 1
    /\ Len(arcScope) = 2

\* C23 witness of the writer: the backend refused at a polymorphic pointer
\* field and the writer has closed its scope and popped its frame
C23_WitnessWriter ==
    /\ arcMode = "w"
    /\ arcLast.op = "pop" /\ arcLast.how = "entered" /\ arcLast.d.pkName = "p"
    /\ arcRoot = "SAttr"
    /\ arcSrc.p = NullPtr
    /\ Len(mParmStack) = 1
    /\ \E i \in 1..Len(arcNodes) : arcNodes[i].pkName = "p" /\ arcNodes[i].null

\* The frames of the parameter stack below the top frame that carry SH_Attribute
AttributeFramesBelowTop(stack) ==
    {i \in 1..(Len(stack) - 1) : SH_Attribute \in stack[i].HintFlags}

\* The top frame is that of an attribute field of the engine itself ("Size",
\* "Type", "ArchiveVer", "FileVer", "Game"), which live in locals and members
\* of the engine
TopIsEngineAttribute ==
    /\ Len(mParmStack) > 0
    /\ SH_Attribute \in mParmStack[Len(mParmStack)].HintFlags
    /\ mParmStack[Len(mParmStack)].pDataPointer.k = "tmp"

\* C24 as stated: no frame other than the top one carries SH_Attribute; a push
\* while the top frame carries it is an assertion failure; no field is pushed
\* while the frame of an attribute field of the engine is on top.
C24_AttributeFramesAreLeaves ==
    [][ /\ AttributeFramesBelowTop(mParmStack') = {}
        /\ (ArcRunning /\ Cur.op = "param" /\ ~PushParameterCheck(mParmStack))
              => arcMode' = "assert"
        /\ (ArcRunning /\ TopIsEngineAttribute) => Cur.op # "param" ]_vars

\* C24, amended: in a build with _DEBUG no frame other than the top one
\* carries SH_Attribute, and a push while the top frame carries it is an
\* assertion failure; in every build no field is pushed while the frame of an
\* attribute field of the engine is on top, so that a frame with SH_Attribute
\* below the top is that of a field of a client.
C24_AttributeFramesAreLeavesInDebugBuild ==
    [][ /\ debugBuild' => AttributeFramesBelowTop(mParmStack') = {}
        /\ (debugBuild /\ ArcRunning /\ Cur.op = "param" /\ ~PushParameterCheck(mParmStack))
              => /\ arcMode' = "assert"
                 /\ mParmStack' = mParmStack
        /\ (ArcRunning /\ TopIsEngineAttribute) => Cur.op # "param"
        /\ \A i \in AttributeFramesBelowTop(mParmStack') :
              mParmStack'[i].pDataPointer.k = "obj" ]_vars

\* C24 witness: in a debug build the push of field x of a member object hinted
\* SH_Attribute has stopped in the assertion
C24_Witness ==
    /\ debugBuild
    /\ arcMode = "assert"
    /\ arcRoot = "SAttr"
    /\ arcLast.op = "param" /\ arcLast.how = "assert" /\ arcLast.d.pkName = "x"
    /\ Len(mParmStack) = 2
    /\ SH_Attribute \in mParmStack[2].HintFlags

\* C24 witness of the release build: the frame of x lies on a frame that
\* carries SH_Attribute
C24_WitnessRelease ==
    /\ ~debugBuild
    /\ arcMode \in {"w", "r"}
    /\ Len(mParmStack) = 3
    /\ AttributeFramesBelowTop(mParmStack) = {2}

\* C24 witness of the engine's attributes: the frame of "Size" is on top
C24_WitnessEngineAttribute ==
    /\ TopIsEngineAttribute
    /\ arcLast.d.pkName = "Size"
    /\ Len(mParmStack) = 3

\* The entries that hold a payload
LoadedEntries == {a \in Addr : heap[a].live /\ heap[a].Loaded}

\* C25: after Unload() returned true the entry is not in the loaded-map and
\* is not loaded; after Unload() returned false the loaded-map and the payload
\* are as they were.
C25_UnloadRemovesFromLoadedMap ==
    \A a \in LoadedEntries :
       LET r == Unload(St, a)
       IN IF r.ok
          THEN /\ heap[a].ID \notin DOMAIN r.S.loaded
               /\ ~r.S.heap[a].Loaded
          ELSE r.S = St

\* C25, what holds: Unload() releases the payload when it returns true and
\* changes nothing when it returns false; the loaded-map still holds the
\* entry, which DeleteResourceEntry asserts before it erases it.
C25_UnloadLeavesLoadedMapToCaller ==
    \A a \in LoadedEntries :
       LET r == Unload(St, a)
       IN /\ r.S.loaded = mLoadedResources
          /\ r.ok => ~r.S.heap[a].Loaded
          /\ ~r.ok => r.S = St
          /\ (r.ok /\ heap[a].ID \in DOMAIN mLoadedResources
                   /\ heap[a].ID \in DOMAIN mResourceEntries /\ heap[a].Dir # DanglingDir)
               => /\ DeleteResourceEntry(St, a).ret
                  /\ heap[a].ID \notin DOMAIN DeleteResourceEntry(St, a).S.loaded

\* C25 witness of the divergence: an entry whose payload nothing refers to is
\* in the loaded-map, so that Unload() returns true for it
C25_WitnessUnloadable ==
    \E a \in LoadedEntries :
       /\ ~IsReferenced(St, a)
       /\ heap[a].ID \in DOMAIN mLoadedResources
       /\ mLoadedResources[heap[a].ID] = a

\* A format loader has returned a payload and the load completes
LoadCompletes == lastOp'.op = "LoadResourceReturn" /\ lastOp'.arg # NULL /\ loading # << >>

\* C26: whatever LoadResource calls are made while loads are running, for
\* other ids or for an id being loaded, when a load completes the assertions
\* of TrackLoadedResource hold (the entry is loaded and its id is not yet a key
\* of the loaded-map), the id is inserted once, and the call returns the
\* payload.
C26_NestedLoadsKeepTrackAssertions ==
    [][ LoadCompletes
          => LET a == loading[Len(loading)].a
             IN /\ heap[a].ID \notin DOMAIN mLoadedResources
                /\ halted' = "none"
                /\ mLoadedResources' = MapPut(mLoadedResources, heap[a].ID, a)
                /\ heap'[a].Loaded
                /\ lastOp'.ret = a ]_vars

\* The entries whose load is in progress more than once
LoadingTwice ==
    {loading[i].a : i \in {j \in 1..Len(loading) :
                             \E k \in 1..Len(loading) : k # j /\ loading[k].a = loading[j].a}}

\* C26, what holds: a LoadResource call for an id of the loaded-map returns
\* the payload the map holds and starts no load; a call never starts a load
\* of an entry that holds a payload; and the load of an entry that no nested
\* call loaded meanwhile completes with the assertions of TrackLoadedResource
\* holding.
C26_NestedLoadsOfOtherEntries ==
    [][ /\ (lastOp'.op = "LoadResourceCall" /\ Running /\ lastOp'.id \in DOMAIN mLoadedResources)
          => /\ lastOp'.ret = mLoadedResources[lastOp'.id]
             /\ loading' = loading
             /\ mLoadedResources' = mLoadedResources
        /\ (lastOp'.op = "LoadResourceCall" /\ lastOp'.arg # NULL /\ halted' = "none")
          => /\ loading' = Append(loading, loading'[Len(loading')])
             /\ ~heap'[loading'[Len(loading')].a].Loaded
             /\ lastOp'.ret = NULL
        /\ (LoadCompletes /\ ~heap[loading[Len(loading)].a].Loaded
                          /\ heap[loading[Len(loading)].a].ID \notin DOMAIN mLoadedResources)
          => /\ halted' = "none"
             /\ mLoadedResources'[heap[loading[Len(loading)].a].ID] = loading[Len(loading)].a ]_vars

\* C26 witness: while the load of an entry is running, a nested load of
\* another entry has completed and is in the loaded-map
C26_WitnessNested ==
    /\ halted = "none"
    /\ Len(loading) = 1
    /\ lastOp.op = "LoadResourceReturn" /\ lastOp.ret # NULL
    /\ lastOp.ret # loading[1].a
    /\ lastOp.id \in DOMAIN mLoadedResources
    /\ ~heap[loading[1].a].Loaded

\* C26 witness of the divergence: the load of an entry is running and a
\* nested call for the same id has started a second load of that entry
C26_WitnessSameId ==
    /\ halted = "none"
    /\ LoadingTwice # {}
    /\ lastOp.op = "LoadResourceCall"
    /\ lastOp.arg \in LoadingTwice

\* C27: no operation replaces the entry the entries-map holds for an id, and
\* every entry that was created and not deleted is the entry the map holds for
\* its id.
C27_RegistrationNeverReplaces ==
    [][ /\ \A id \in DOMAIN mResourceEntries \cap DOMAIN mResourceEntries' :
              mResourceEntries'[id] = mResourceEntries[id]
        /\ \A a \in Addr :
              heap'[a].live
                => /\ heap'[a].ID \in DOMAIN mResourceEntries'
                   /\ mResourceEntries'[heap'[a].ID] = a ]_vars

\* C27, what holds: RegisterResource and RegisterTransientResource called
\* with a valid id that is a key of the entries-map leave the map as it is
\* and return the entry it holds (or none).
C27_RegisterOfTrackedValidIdKeepsEntry ==
    Running =>
      \A id \in DOMAIN mResourceEntries \ {InvalidID} :
         /\ \A x \in RegArgs :
               LET r == RegisterResource(St, NULL, id, x.type, x.dir, x.name)
               IN /\ r.S.ent = mResourceEntries
                  /\ r.ret \in {NULL, mResourceEntries[id]}
         /\ \A x \in TransArgs :
               LET r == RegisterTransientResource(St, NULL, x.type, id, x.dir, x.name)
               IN /\ r.S.ent = mResourceEntries
                  /\ r.ret = mResourceEntries[id]

\* C27 witness of the divergence: an entry that was created and not deleted
\* is not the entry the map holds for its id
C27_WitnessReplaced ==
    \E a \in Addr :
       /\ heap[a].live
       /\ heap[a].ID \in DOMAIN mResourceEntries
       /\ mResourceEntries[heap[a].ID] # a

\* LoadResource(path) was called with an absolute path (the paths of that
\* kind lie in directory "t") and has returned no payload
AbsoluteLoadFailed ==
    /\ lastOp'.op = "LoadResourcePath"
    /\ lastOp'.dir = "t"
    /\ lastOp'.ret = NULL
    /\ Running /\ halted' = "none"

\* The entries-map holds after the step what it held before, and those
\* entries are as they were
EntriesKept ==
    \A id \in DOMAIN mResourceEntries :
       /\ id \in DOMAIN mResourceEntries'
       /\ mResourceEntries'[id] = mResourceEntries[id]
       /\ heap'[mResourceEntries[id]] = heap[mResourceEntries[id]]

\* C28: a LoadResource(path) call for an absolute path that fails leaves every
\* id of the entries-map in the map, with the same entry, unaltered.
C28_FailedPathLoadKeepsEntries ==
    [][ AbsoluteLoadFailed => EntriesKept ]_vars

\* C28, what holds: the same when the id made from the path is valid and not
\* a key of the entries-map.
C28_FailedPathLoadOfNewIdKeepsEntries ==
    [][ ( /\ AbsoluteLoadFailed
          /\ lastOp'.id # InvalidID
          /\ lastOp'.id \notin DOMAIN mResourceEntries )
          => /\ EntriesKept
             /\ mResourceEntries' = mResourceEntries ]_vars

\* C28 witness of the divergence: the failed call for the id of a registered
\* entry has returned and the id is no longer in the entries-map
C28_WitnessDeleted ==
    /\ lastOp.op = "LoadResourcePath" /\ lastOp.dir = "t"
    /\ lastOp.ret = NULL /\ ~lastOp.err /\ lastOp.arg = 0
    /\ lastOp.id # InvalidID
    /\ halted = "none"
    /\ lastOp.id \notin DOMAIN mResourceEntries

\* The transient roots of store S that have no child
EmptyRoots(S) == {i \in 1..Len(S.roots) : S.dirs[TrDir(S.roots[i])] = {}}

\* DestroyUnreferencedResources was called and has returned
SweepReturned ==
    /\ lastOp'.op = "DestroyUnreferencedResources"
    /\ Running /\ halted' = "none"

\* C29: when DestroyUnreferencedResources returns, every transient root the
\* store still holds is non-empty.
C29_SweepRemovesEveryEmptyRoot ==
    [][ SweepReturned
          => \A i \in 1..Len(mTransientRoots') :
                dirs'[TrDir(mTransientRoots'[i])] # {} ]_vars

\* C29, what holds: when DestroyUnreferencedResources returns, the roots that
\* were non-empty after the collection are kept, in their order; the first
\* empty root has been removed; and a root that was empty is kept only if the
\* root before it in the list was removed.
C29_SweepRemovesFirstEmptyRoot ==
    [][ SweepReturned
          => LET S1 == GCLoop(St, 0).S
                 kept == {i \in 1..Len(S1.roots) :
                             \E j \in 1..Len(mTransientRoots') :
                                mTransientRoots'[j] = S1.roots[i]}
             IN /\ \A i \in 1..Len(S1.roots) : i \notin EmptyRoots(S1) => i \in kept
                /\ \A j \in 1..Len(mTransientRoots') :
                      \E i \in 1..Len(S1.roots) : S1.roots[i] = mTransientRoots'[j]
                /\ EmptyRoots(S1) # {} => SetMin(EmptyRoots(S1)) \notin kept
                /\ \A i \in EmptyRoots(S1) \cap kept : i > 1 /\ (i - 1) \notin kept ]_vars

\* C29 witness of the divergence: DestroyUnreferencedResources has returned
\* and the store holds a transient root without children
C29_WitnessEmptyRootKept ==
    /\ lastOp.op = "DestroyUnreferencedResources"
    /\ halted = "none"
    /\ EmptyRoots(St) # {}

\* C29 witness of a sweep that did its work: the only empty root, the first
\* of two, has been removed
C29_WitnessRemoved ==
    /\ lastOp.op = "DestroyUnreferencedResources"
    /\ halted = "none"
    /\ Len(mTransientRoots) = 1
    /\ EmptyRoots(St) = {}
    /\ mTransientRoots[1] = "u"

\* The header of a cache file as LoadCacheFile reads it: the magic, the
\* version, the count, and the cursor at the first record
LoadCacheHeader(body) ==
    [Magic |-> ReadLong(body, 1), NumResources |-> ReadLong(body, 3), pos |-> 4]

\* The cursor of LoadCacheFile at the start of each of its k iterations from
\* pos, followed by the cursor after the last one
RECURSIVE LoaderOffsets(_, _, _, _, _)
LoaderOffsets(S, body, pos, k, n) ==
    IF k = 0 THEN <<pos>>
    ELSE <<pos>> \o LoaderOffsets(S, body, LoadCacheRecord(S, body, pos, n).pos, k - 1, n)

CacheFileSaved ==
    /\ halted = "none"
    /\ \/ lastOp.op = "SaveCacheFile" /\ lastOp.ret = 1
       \/ lastOp.op = "ConditionalSaveStore" /\ lastOp.ret = 1

\* C30: the cache file SaveCacheFile writes is framed as LoadCacheFile reads
\* it: the count of the header is the number of records written, which is the
\* number of non-transient entries; the length of each record is the number
\* of payload cells written behind it; and the end offset the loader computes
\* for each record is the start of the next record, or the end of the file.
C30_SavedCacheFileIsFramed ==
    CacheFileSaved =>
      LET body == cacheDisk.body
          recs == cacheDisk.recs
          h == LoadCacheHeader(body)
          N == h.NumResources
          start(i) == h.pos - 1 + RecordStart(recs, i)
      IN /\ h.Magic = CACH
         /\ N = Len(recs)
         /\ N = Cardinality({id \in DOMAIN mResourceEntries :
                                ~heap[mResourceEntries[id]].Transient})
         /\ \A i \in 1..Len(recs) :
               /\ start(i) + 1 + Len(recs[i].payload) <= Len(body)
               /\ body[start(i)] = recs[i].id
               /\ body[start(i) + 1] = Len(recs[i].payload)
               /\ SubSeq(body, start(i) + 2, start(i) + 1 + Len(recs[i].payload))
                     = recs[i].payload
               /\ recs[i].payload
                     = SerializeCacheData(St, mResourceEntries[recs[i].id])
         /\ \A n \in 0..MaxConsume :
               LET offs == LoaderOffsets(St, body, h.pos, N, n)
               IN /\ Len(offs) = N + 1
                  /\ \A i \in 1..N : offs[i] = start(i)
                  /\ offs[N + 1] = Len(body) + 1

\* C30 witness: a file of two records was saved, the first with a payload
C30_Witness ==
    /\ CacheFileSaved
    /\ Len(cacheDisk.recs) = 2
    /\ Len(cacheDisk.recs[1].payload) > 0
    /\ LoadCacheHeader(cacheDisk.body).NumResources = 2

\* C30 witness: a file was saved from a store with a transient entry, which
\* has no record
C30_WitnessTransient ==
    /\ CacheFileSaved
    /\ \E id \in DOMAIN mResourceEntries : heap[mResourceEntries[id]].Transient
    /\ Len(cacheDisk.recs) = 1
    /\ Len(cacheDisk.body) > 3

\* The statements of the agenda that will call ParamEnd: the end of the
\* branch of an operator<< whose ParamBegin returned true, and the end of a
\* map iteration whose ParamBegin("Item") returned true
PendingEnds(agenda) ==
    Cardinality({i \in DOMAIN agenda :
                    \/ agenda[i].op = "end"
                    \/ agenda[i].op = "mapItemEnd" /\ agenda[i].s = "in"})

\* The statements that start the strategy action of an operator<<
StrategyOps == {"prim", "serialize", "pointer", "primPointer", "memberPointer"}

\* C31: the strategy action of a field runs only directly after ParamBegin
\* returned true for that field (which is called only when
\* ShouldSerializeParameter was true); a field whose ShouldSerializeParameter
\* is false does not reach the backend at all; a field that was skipped or
\* declined goes to PopParameter with no ParamEnd; every ParamEnd closes the
\* scope its own field opened, after the action; the same for the "Item"
\* scope of a map iteration; and at every statement the open scopes are
\* exactly those whose ParamEnd is still to come, none when << has returned.
C31_ScopeCallsBalanced ==
    [][ /\ (ArcRunning /\ Cur.op \in StrategyOps)
          => /\ arcLast.op = "param" /\ arcLast.how = "entered"
             /\ arcLast.d = Cur.d /\ arcLast.ptr = Cur.ptr
             /\ ShouldSerializeParameter(mArchiveFlags, Cur.d, Deref(Cur.ptr))
        /\ (ArcRunning /\ Cur.op = "param" /\ arcMode' # "assert")
          => /\ arcLast'.how = "entered"
                  <=> Len(arcScope') = Len(arcScope) + 1
             /\ ~ShouldSerializeParameter(mArchiveFlags, Cur.d, Deref(Cur.ptr))
                  => /\ arcLast'.how = "skipped"
                     /\ arcNodes' = arcNodes /\ arcScope' = arcScope
             /\ arcLast'.how \in {"skipped", "declined"}
                  => /\ Len(arcScope') = Len(arcScope)
                     /\ Head(arcAgenda').op = "pop"
                     /\ Head(arcAgenda').d = Cur.d
        /\ (ArcRunning /\ Cur.op = "end")
          => /\ arcLast.op # "param"
             /\ arcNodes[CurNode(arcScope)].pkName = Cur.d.pkName
             /\ mParmStack[Len(mParmStack)].pDataPointer = Cur.ptr
             /\ arcScope' = SubSeq(arcScope, 1, Len(arcScope) - 1)
             /\ Head(arcAgenda').op = "pop" /\ Head(arcAgenda').s = "entered"
        /\ (ArcRunning /\ Cur.op = "pop" /\ Cur.s \in {"skipped", "declined"})
          => /\ arcLast.op = "param" /\ arcLast.d = Cur.d
             /\ arcScope' = arcScope
        /\ (ArcRunning /\ Cur.op = "mapItemEnd" /\ arcMode' # "assert")
          => IF Cur.s = "in"
             THEN /\ arcNodes[CurNode(arcScope)].pkName = "Item"
                  /\ arcScope' = SubSeq(arcScope, 1, Len(arcScope) - 1)
             ELSE arcScope' = arcScope
        /\ arcMode' \in {"w", "r"}
          => /\ Len(arcScope') = 1 + PendingEnds(arcAgenda')
             /\ arcAgenda' = << >> => CurNode(arcScope') = 0 ]_vars

\* C31 witness: a writer without AF_NoSkipping has skipped a field, a reader
\* has been declined that field and has closed the scopes of the others, those
\* of two map entries among them, and every scope is closed
C31_Witness ==
    /\ arcMode = "done"
    /\ AF_NoSkipping \notin mArchiveFlags
    /\ arcRoot = "SOuter"
    /\ arcSrc.in.x = 1
    /\ Cardinality(DOMAIN arcSrc.m) = 2
    /\ Len(arcSrc.v) = 1
    /\ Len(arcScope) = 1
    /\ \E i \in 1..Len(arcNodes) : arcNodes[i].pkName = "Key"

\* The payloads refer to each other in a cycle: two loaded payloads that hold
\* a reference to each other
CyclicReferences ==
    \E a \in LoadedAddrs, b \in LoadedAddrs : a # b /\ b \in deps[a] /\ a \in deps[b]

\* C32: every scan of DestroyUnreferencedResources that does not end the loop
\* leaves mLoadedResources strictly smaller than it found it, no scan makes it
\* larger, and the number of scans made, while the loop runs and when the call
\* returns, is at most the number of loaded entries at the call plus one.
C32_GCPassesBounded ==
    [][ lastOp'.op \in {"GCScan", "DestroyUnreferencedResources"}
          => /\ lastOp'.op = "GCScan"
                  => Cardinality(DOMAIN mLoadedResources')
                        < Cardinality(DOMAIN mLoadedResources)
             /\ halted' = "none"
                  => DOMAIN mLoadedResources' \subseteq DOMAIN mLoadedResources
             /\ lastOp'.arg = IF gc.pc = "idle" THEN Cardinality(DOMAIN mLoadedResources)
                              ELSE gc.start
             /\ lastOp'.ret = (IF gc.pc = "idle" THEN 0 ELSE gc.passes) + 1
             /\ lastOp'.ret <= lastOp'.arg + 1
             /\ lastOp'.op = "GCScan"
                  => lastOp'.ret + Cardinality(DOMAIN mLoadedResources') <= lastOp'.arg ]_vars

\* C32, as a property of behaviours: a collection that has been called returns
\* (or stops the process)
C32_GCTerminates == (gc.pc = "scan") ~> (gc.pc = "idle")

\* C32 witness: a call made with two loaded entries has returned after three
\* scans
C32_Witness ==
    /\ lastOp.op = "DestroyUnreferencedResources"
    /\ lastOp.arg = 2
    /\ lastOp.ret = 3
    /\ halted = "none"

\* C32 witness: a call made while two payloads refer to each other has
\* returned, and has left them loaded
C32_WitnessCycle ==
    /\ lastOp.op = "DestroyUnreferencedResources"
    /\ CyclicReferences
    /\ halted = "none"

\* Entry a of the entries-map is the same entry after the step, registered
\* under the same id with the same type, directory, name and flags
StillRegistered(id, a) ==
    /\ id \in DOMAIN mResourceEntries'
    /\ mResourceEntries'[id] = a
    /\ [heap'[a] EXCEPT !.Loaded = heap[a].Loaded] = heap[a]

\* C33: when DestroyUnreferencedResources returns, every entry of the
\* entries-map that is not transient, and every entry of it that was not
\* loaded when the call began, is still registered with the same id and
\* metadata.
C33_GCRemovesOnlyUnloadedTransients ==
    [][ GCReturned
        => \A id \in DOMAIN mResourceEntries :
              LET a == mResourceEntries[id]
              IN (~heap[a].Transient \/ ~heap[a].Loaded) => StillRegistered(id, a) ]_vars

\* Every entry that was created and not deleted is the entry the entries-map
\* holds for its id
EntriesMapIsExact ==
    \A a \in Addr : heap[a].live => /\ heap[a].ID \in DOMAIN mResourceEntries
                                    /\ mResourceEntries[heap[a].ID] = a

\* C33, what holds: the same, for a call made while every entry is the entry
\* the entries-map holds for its id.
C33_GCOfExactMapRemovesOnlyUnloadedTransients ==
    [][ (GCReturned /\ EntriesMapIsExact)
        => \A id \in DOMAIN mResourceEntries :
              LET a == mResourceEntries[id]
              IN (~heap[a].Transient \/ ~heap[a].Loaded) => StillRegistered(id, a) ]_vars

\* C33 witness of what holds: a call that unloaded a payload has returned,
\* every entry is the entry the entries-map holds for its id, and the map
\* holds an entry that is not loaded
C33_Witness ==
    /\ lastOp.op = "DestroyUnreferencedResources" /\ lastOp.ret >= 2
    /\ halted = "none"
    /\ EntriesMapIsExact
    /\ Cardinality(DOMAIN mResourceEntries) = 1
    /\ \E a \in Addr : heap[a] = FreeEntry
    /\ \A id \in DOMAIN mResourceEntries : ~heap[mResourceEntries[id]].Loaded

\* LoadResourceDatabase has returned false: the reader of the database was
\* not valid, or LoadCacheFile returned false before its record loop (the
\* cache file did not open, or its magic was not "CACH")
LoadResourceDatabaseFailed ==
    /\ lastOp'.op = "LoadResourceDatabase"
    /\ lastOp'.arg = 0
    /\ halted' = "none"

\* C34: when LoadResourceDatabase, called on a new store, returns false, the
\* entries-map is what it was before the call: no entry has been registered.
C34_FailedDatabaseLoadRegistersNothing ==
    [][ LoadResourceDatabaseFailed => mResourceEntries' = FreshStore.ent ]_vars

\* C34, what holds: when the database itself cannot be read, no entry has
\* been registered.
C34_UnreadableDatabaseRegistersNothing ==
    [][ (LoadResourceDatabaseFailed /\ lastOp'.ret = 0)
          => mResourceEntries' = FreshStore.ent ]_vars

\* C34 witness of what holds: a database file with records could not be read
\* and the store has no entries
C34_Witness ==
    /\ lastOp.op = "LoadResourceDatabase" /\ lastOp.ret = 0
    /\ halted = "none"
    /\ dbFile # << >>
    /\ mResourceEntries = << >>

\* C34 witness of the divergence: the database was read, no cache file is on
\* disk, so the call has returned false, and the store has entries
C34_WitnessRegistered ==
    /\ lastOp.op = "LoadResourceDatabase" /\ lastOp.ret = 1 /\ lastOp.arg = 0
    /\ halted = "none"
    /\ ~cacheDisk.valid
    /\ mResourceEntries # << >>

C35_WitnessFailed ==
    /\ halted = "none"
    /\ loading = << >>
    /\ lastOp.op = "LoadResourcePathReturn" /\ lastOp.ret = NULL /\ lastOp.dir = "t"
    /\ mTransientLoadDir = "u\\"

\* The element count of a container
ContainerCount(T, v) == IF T = "vector<SItem>" THEN Len(v) ELSE Cardinality(DOMAIN v)

\* The Size the document holds for the container at its root
SerializedSize ==
    arcNodes[CHOOSE i \in 1..Len(arcNodes) :
                /\ arcNodes[i].pkName = "Size" /\ arcNodes[i].parent = 1].val

\* C36: when the read of a container has returned, the container holds
\* exactly the elements the archive holds (those of the container that was
\* written) and as many elements as the Size of the archive, whatever it held
\* before the read.
C36_ReadContainerHoldsWhatWasRead ==
    ( arcMode = "done" /\ arcRoot \in ContainerTypes )
    => /\ arcObj = arcSrc
       /\ ContainerCount(arcRoot, arcObj) = SerializedSize

\* C36, what holds: a vector that was read holds exactly the elements read
\* and Size of them; a map that was read holds every key read with the value
\* read, and at least Size elements.
C36_ReadContainerHoldsEveryElementRead ==
    ( arcMode = "done" /\ arcRoot \in ContainerTypes )
    => IF arcRoot = "vector<SItem>"
       THEN /\ arcObj = arcSrc
            /\ Len(arcObj) = SerializedSize
       ELSE /\ \A k \in DOMAIN arcSrc : k \in DOMAIN arcObj /\ arcObj[k] = arcSrc[k]
            /\ Cardinality(DOMAIN arcObj) >= SerializedSize
            /\ Cardinality(DOMAIN arcSrc) = SerializedSize

\* C36 witness of what holds: a vector of two elements was read into a vector
\* (it held none, or one, or two other elements)
C36_Witness ==
    /\ arcMode = "done"
    /\ arcRoot = "vector<SItem>"
    /\ arcSrc = << [x |-> 0], [x |-> 1] >>
    /\ arcObj = arcSrc

\* C36 witness of the divergence: a map of one element was read and the map
\* holds two elements
C36_WitnessKeptElements ==
    /\ arcMode = "done"
    /\ arcRoot = "map<u32,u32>"
    /\ SerializedSize = 1
    /\ Cardinality(DOMAIN arcObj) = 2

\* A node of a document: its parent, name, whether it is an attribute, its text
DocNode(parent, name, attr, val) ==
    [parent |-> parent, pkName |-> name, attr |-> attr, val |-> val, null |-> FALSE]

\* The document of a map passed to << as "Root": the element count, then one
\* "Item" element per entry, in key order, holding "Key" and then "Value"
MapDocument(M) ==
    LET keys == SortedSeq(DOMAIN M)
        entry(i) == << DocNode(1, "Item", FALSE, NoValue),
                       DocNode(3 * i, "Key", FALSE, keys[i]),
                       DocNode(3 * i, "Value", FALSE, M[keys[i]]) >>
        entries[i \in 0..Len(keys)] == IF i = 0 THEN << >> ELSE entries[i - 1] \o entry(i)
    IN << DocNode(0, "Root", FALSE, NoValue), DocNode(1, "Size", TRUE, Len(keys)) >>
       \o entries[Len(keys)]

\* C37: the document a writer makes of a map is the element count followed by
\* one "Item" scope per entry holding the "Key" field and then the "Value"
\* field; the three are passed with SH_IgnoreName; a reader that has read a
\* key its map already holds stops in an assertion, and no step of a reader
\* changes or removes an entry the map holds.
C37_MapItemsAndNoOverwrite ==
    [][ /\ (arcRoot' = "map<u32,u32>" /\ arcMode' = "w" /\ arcAgenda' = << >>)
          => arcNodes' = MapDocument(arcSrc')
        /\ (ArcRunning /\ Cur.op = "param" /\ Cur.d.pkName \in {"Key", "Value"})
          => Cur.d.HintFlags = {SH_IgnoreName}
        /\ (ArcRunning /\ arcRoot = "map<u32,u32>" /\ Cur.op = "mapItemBegin" /\ IsReader)
          => /\ Len(arcScope') = Len(arcScope) + 1
             /\ arcNodes[CurNode(arcScope')].pkName = "Item"
        /\ (arcRoot = "map<u32,u32>" /\ arcMode = "r")
          => /\ \A k \in DOMAIN arcObj : k \in DOMAIN arcObj' /\ arcObj'[k] = arcObj[k]
             /\ arcNodes' = arcNodes
        /\ ( /\ ArcRunning /\ arcRoot = "map<u32,u32>" /\ IsReader
             /\ Cur.op = "mapItemEnd" /\ Cur.s = "in"
             /\ arcTmp[TmpPtr(Cur.ptr.p, "Key").p] \in DOMAIN arcObj )
          => /\ arcMode' = "assert"
             /\ arcObj' = arcObj ]_vars

\* C37 witness: a map of two entries has been written as Size and two "Item"
\* scopes of "Key" and "Value", and read into an empty map
C37_Witness ==
    /\ arcMode = "done"
    /\ arcRoot = "map<u32,u32>"
    /\ arcSrc = (0 :> 1 @@ 1 :> 0)
    /\ arcNodes = MapDocument(arcSrc)
    /\ Len(arcNodes) = 8
    /\ arcObj = arcSrc

\* C37 witness: a reader has read a key its map already held, with another
\* value, and has stopped in the assertion; the map holds the value it held
C37_WitnessAssertion ==
    /\ arcMode = "assert"
    /\ arcRoot = "map<u32,u32>"
    /\ arcLast.op = "mapItemEnd"
    /\ arcSrc = (0 :> 1)
    /\ arcObj = (0 :> 0)

\* The nodes of a document whose parent is node n, in document order
ChildrenOf(nodes, n) == SortedSeq({i \in DOMAIN nodes : nodes[i].parent = n})

\* The document of a vector v passed to << as "Root" by a writer: the first
\* child of the root is the attribute "Size" holding the element count, the
\* next Len(v) children are elements named "Item", the i-th of them written
\* from v[i] (its field x is left out where it holds its default), and the
\* root has no other child
IsVectorDocument(nodes, v) ==
    LET kids == ChildrenOf(nodes, 1)
    IN /\ Len(kids) = 1 + Len(v)
       /\ nodes[kids[1]].pkName = "Size"
       /\ nodes[kids[1]].attr
       /\ nodes[kids[1]].val = Len(v)
       /\ \A i \in 1..Len(v) :
            LET item == kids[i + 1]
                xs   == ChildrenOf(nodes, item)
            IN /\ nodes[item].pkName = "Item"
               /\ ~nodes[item].attr
               /\ IF xs = << >>
                  THEN v[i].x = Fields("SItem")[1].pDefaultValue
                  ELSE /\ Len(xs) = 1
                       /\ nodes[xs[1]].pkName = "x"
                       /\ nodes[xs[1]].val = v[i].x

VersionAttributes(nodes) ==
    SortedSeq({i \in DOMAIN nodes : nodes[i].parent = 0 /\ nodes[i].attr})

\* The version members of the archive object
ArchiveVersion == arcTmp[TmpPtr(<< >>, "mArchiveVersion").p]
FileVersion == arcTmp[TmpPtr(<< >>, "mFileVersion").p]
Game == arcTmp[TmpPtr(<< >>, "mGame").p]

\* The top-level attributes of the document are ArchiveVer, then FileVer if
\* hasFileVer, then Game if hasGame, they hold the version members, and they
\* precede every other node of the document
IsVersionHeader(nodes, hasFileVer, hasGame) ==
    LET attrs == VersionAttributes(nodes)
        names == << "ArchiveVer" >> \o (IF hasFileVer THEN << "FileVer" >> ELSE << >>)
                                    \o (IF hasGame THEN << "Game" >> ELSE << >>)
        value(name) == IF name = "ArchiveVer" THEN ArchiveVersion
                       ELSE IF name = "FileVer" THEN FileVersion ELSE Game
    IN /\ Len(attrs) = Len(names)
       /\ \A i \in 1..Len(names) :
            /\ attrs[i] = i
            /\ nodes[i].pkName = names[i]
            /\ nodes[i].val = value(names[i])

\* A writer of a versioned file has returned from its last <<
FileWritten == arcMode = "w" /\ arcAgenda = << >> /\ arcRoot \in FileTypes

\* A reader of a versioned file has returned from its last <<
FileRead == arcMode = "r" /\ arcAgenda = << >> /\ arcRoot \in FileTypes

\* What a reader of a versioned file ends with: the version members are the
\* attributes of the document, and 0 and the unknown game where the document
\* has no FileVer and no Game
ReaderHasVersionOfDocument ==
    LET has(name) == \E i \in DOMAIN arcNodes :
                        arcNodes[i].parent = 0 /\ arcNodes[i].attr /\ arcNodes[i].pkName = name
    IN /\ has("ArchiveVer")
       /\ IsVersionHeader(arcNodes, has("FileVer"), has("Game"))
       /\ ~has("FileVer") => FileVersion = 0
       /\ ~has("Game") => Game = eUnknownGame

\* C39 as stated: a writer writes ArchiveVer, and FileVer and Game exactly
\* when they are not 0 and not the unknown game; a reader of a document
\* without them ends with FileVersion() = 0 and Game() = eUnknownGame.
C39_VersionAttributesOmittedAtDefault ==
    /\ FileWritten => IsVersionHeader(arcNodes, FileVersion # 0, Game # eUnknownGame)
    /\ FileRead => ReaderHasVersionOfDocument

\* C39 amended: a writer writes ArchiveVer, and FileVer and Game exactly when
\* they are not 0 and not the unknown game or the archive has AF_NoSkipping
\* (then all three are written); the attributes are the first nodes of the
\* document, in the order ArchiveVer, FileVer, Game; a reader ends with the
\* versions of the document, and with FileVersion() = 0 and
\* Game() = eUnknownGame where the document has none.
C39_VersionAttributesOmittedUnlessNoSkipping ==
    /\ FileWritten
       => IsVersionHeader(arcNodes,
                          FileVersion # 0 \/ AF_NoSkipping \in mArchiveFlags,
                          Game # eUnknownGame \/ AF_NoSkipping \in mArchiveFlags)
    /\ FileRead => ReaderHasVersionOfDocument

\* C39 witness: a writer without AF_NoSkipping whose file version is 0 and
\* whose game is unknown wrote ArchiveVer alone, and a reader of that document
\* has ended with the file version 0 and the unknown game
C39_Witness ==
    /\ FileRead
    /\ AF_NoSkipping \notin mArchiveFlags
    /\ Len(VersionAttributes(arcNodes)) = 1
    /\ arcNodes[1].pkName = "ArchiveVer"
    /\ ArchiveVersion = skCurrentArchiveVersion
    /\ FileVersion = 0
    /\ Game = eUnknownGame

\* C39 witness: a writer with a file version and a game wrote the three
\* attributes in order
C39_WitnessThree ==
    /\ FileWritten
    /\ AF_NoSkipping \notin mArchiveFlags
    /\ IsVersionHeader(arcNodes, TRUE, TRUE)
    /\ FileVersion = 1
    /\ Game = 1

\* C39 witness of the amendment: a writer with AF_NoSkipping wrote FileVer = 0
\* and Game = eUnknownGame
C39_WitnessNoSkipping ==
    /\ FileWritten
    /\ AF_NoSkipping \in mArchiveFlags
    /\ IsVersionHeader(arcNodes, TRUE, TRUE)
    /\ FileVersion = 0
    /\ Game = eUnknownGame

\* The paths of the polymorphic pointer fields of graph v of type T that hold
\* an object
RECURSIVE LivePointers(_, _, _)
LivePointers(T, v, path) ==
    IF T \in PrimTypes \/ IsContainer(T) THEN {}
    ELSE IF T = "IBase*"
    THEN IF v = NullPtr THEN {}
         ELSE {path} \cup LivePointers(ClassOfType(v.Type), v, path)
    ELSE UNION { LivePointers(Fields(T)[i].type, v[Fields(T)[i].pkName],
                              Append(path, Step(Fields(T)[i].pkName, 0)))
                 : i \in 1..Len(Fields(T)) }

\* The nodes of the document directly inside the open node
ChildrenOfCurNode == {i \in 1..Len(arcNodes) : arcNodes[i].parent = CurNode(arcScope)}

====
